---- MODULE Spec2Model ----
(***************************************************************************)
(* Obi: the interactive session engine and its orchestration loop.         *)
(*                                                                         *)
(* Strings are sequences of one-character strings, so that substring       *)
(* replacement, trimming, case folding and line splitting are computed as  *)
(* the Go code computes them.                                              *)
(***************************************************************************)
EXTENDS Integers, Sequences, FiniteSets, TLC

VARIABLES
    \* secretRedactor.Redact / redactText applied twice to one text
    rWhich, rSecrets, rText, rOut, rOut2, rPc,
    \* streamWriter fed by io.Copy
    wSecrets, wStream, wPos, wLive, wBuilder, wTee, wEvents,
    \* fenced.Parser fed chunk by chunk
    pText, pRest, parser, pOutcome, pPc,
    \* a Sentinel, what its last call returned, the first report or error it
    \* returned, the output still to come, the calls that carried no chunk
    snl, snRet, snLatched, snRest, snCalls,
    \* one session of the SessionRunner: Start, the output copier, the child
    \* process, the wait watcher, SoftStop and Abort callers, the event consumer
    sState, ev, chunkBudget, copied, copierDone, streamErr, procExited, waitErr,
    wPc, handleNil, ttyClosed, result, softStopMu, softStopIssued, ssPc, ssRet,
    abortOnce, abPc, abRet, markerWrites, signalsSent,
    \* the ledger file, the callers of appendLedgerEntry and upgradeLedgerFile
    store, writer, lMode, lInitial, lSnap,
    \* the epic loop and the executeSession calls it made
    oPc, sessionCount, oErr, runs, resumeCompletedBeads, oPlan, oReady, oScope,
    oSummary,
    \* the signal relay of one session and the signals it was handed
    softStopSent, relaySignals, ctrlCalls, relayOut,
    \* the signal channel of executeSession, the done channel of the relay and
    \* the relay goroutine
    sigCh, sigClosed, relayDone, relayPc,
    \* one call of completedBeadsFromLedger: the file, the epic, the answer
    cbFile, cbEpic, cbResult, cbPc,
    \* maybeRunSummarizer reading the ledger: the file, max_commits and
    \* chunk_size of the configuration, what was loaded, the chunks
    smStore, smMax, smChunk, smLoaded, smChunks, smPc,
    \* one call of Shell.Run: the terminal, the context, the channels it selects on
    shPc, shErr, shFd, shState, term, ctxDone, shEvents, renderCh,
    \* one call of executeSession as a process: what it did to the session,
    \* the TUI and the transcript, and the child it launched
    xPc, xUseTUI, xTrace, xErr, xChild, xView, xDefers,
    \* the InputRouter: its mode and hint buffer, the bytes it handled, the
    \* calls it made on the session, the shell and the hint submitter
    irMode, hintBuf, irKeys, irCalls, irErr,
    \* the log pane of one Shell: the pane, the last call that reached it, the
    \* lines it was handed, the pane as the last pause left it
    pane, paneOp, paneFed, paneSnap, paneCount,
    \* a text that reaches the pane in pieces, and how much of it has
    paneText, panePos,
    \* the callers that write to the PTY of one session: where each is, the
    \* holders of softStopMu and inputMu, the calls made, what the PTY received
    inPc, inMu, inIssued, inCalls, ptyIn,
    \* the sessionDisplay of one session: the callers of Stop and its Once, the
    \* release channel and the two contexts, the input router goroutine and
    \* the operator's bytes it reads, the event forwarder, the shell goroutine
    dStop, dOnce, dReleased, dInputCancelled, dShellCancelled, dRouter, dInputDone,
    dStdin, dTyped, dForwarder, dShell, dDone,
    \* the operator's interventions in one session: the session as its
    \* controls see it, the operator log, the relay's latch, the requests made
    opSession, opLog, opRelaySent, opCount

redVars == <<rWhich, rSecrets, rText, rOut, rOut2, rPc>>
streamVars == <<wSecrets, wStream, wPos, wLive, wBuilder, wTee, wEvents>>
parserVars == <<pText, pRest, parser, pOutcome, pPc, snl, snRet, snLatched, snRest,
                snCalls>>

sessVars == <<sState, ev, chunkBudget, copied, copierDone, streamErr, procExited,
              waitErr, wPc, handleNil, ttyClosed, result, softStopMu, softStopIssued,
              ssPc, ssRet, abortOnce, abPc, abRet, markerWrites, signalsSent>>

ledgerVars == <<store, writer, lMode, lInitial, lSnap>>

orchVars == <<oPc, sessionCount, oErr, runs, resumeCompletedBeads, oPlan, oReady,
              oScope, oSummary>>

relayVars == <<softStopSent, relaySignals, ctrlCalls, relayOut, sigCh, sigClosed,
               relayDone, relayPc>>

loadVars == <<cbFile, cbEpic, cbResult, cbPc, smStore, smMax, smChunk, smLoaded,
              smChunks, smPc>>

shellVars == <<shPc, shErr, shFd, shState, term, ctxDone, shEvents, renderCh>>

execVars == <<xPc, xUseTUI, xTrace, xErr, xChild, xView, xDefers>>

routerVars == <<irMode, hintBuf, irKeys, irCalls, irErr>>

paneVars == <<pane, paneOp, paneFed, paneSnap, paneCount, paneText, panePos>>

inputVars == <<inPc, inMu, inIssued, inCalls, ptyIn>>

displayVars == <<dStop, dOnce, dReleased, dInputCancelled, dShellCancelled, dRouter,
                 dInputDone, dStdin, dTyped, dForwarder, dShell, dDone>>

operatorVars == <<opSession, opLog, opRelaySent, opCount>>

uiVars == <<shellVars, execVars, routerVars, paneVars, inputVars, displayVars,
            operatorVars>>

restVars == <<relayVars, loadVars, uiVars>>

vars == <<redVars, streamVars, parserVars, sessVars, ledgerVars, orchVars, restVars>>

\* what the actions of one component leave alone
nonRedVars == <<streamVars, parserVars, sessVars, ledgerVars, orchVars, restVars>>
nonStreamVars == <<redVars, parserVars, sessVars, ledgerVars, orchVars, restVars>>
nonParserVars == <<redVars, streamVars, sessVars, ledgerVars, orchVars, restVars>>
nonSessVars == <<redVars, streamVars, parserVars, ledgerVars, orchVars, restVars>>
nonLedgerVars == <<redVars, streamVars, parserVars, sessVars, orchVars, restVars>>
nonOrchVars == <<redVars, streamVars, parserVars, sessVars, restVars>>
coreVars == <<redVars, streamVars, parserVars, sessVars, ledgerVars, orchVars>>
nonRelayVars == <<coreVars, loadVars, uiVars>>
nonLoadVars == <<coreVars, relayVars, uiVars>>
backVars == <<coreVars, relayVars, loadVars>>
nonShellVars == <<backVars, execVars, routerVars, paneVars, inputVars, displayVars, operatorVars>>
nonExecVars == <<backVars, shellVars, routerVars, paneVars, inputVars, displayVars, operatorVars>>
nonRouterVars == <<backVars, shellVars, execVars, paneVars, inputVars, displayVars, operatorVars>>
nonPaneVars == <<backVars, shellVars, execVars, routerVars, inputVars, displayVars, operatorVars>>
nonInputVars == <<backVars, shellVars, execVars, routerVars, paneVars, displayVars, operatorVars>>
nonDisplayVars == <<backVars, shellVars, execVars, routerVars, paneVars, inputVars, operatorVars>>
nonOperatorVars == <<backVars, shellVars, execVars, routerVars, paneVars, inputVars,
                    displayVars>>

(***************************************************************************)
(* Bounds of the model.                                                    *)
(***************************************************************************)
MaxTextLen == 3
MaxSecretLen == 2
MaxSecrets == 2
\* characters of a chunk fed to the parser, unless it is the rest of the stream
MaxChunkLen == 2
\* chunks the copier reads in a session with operator controls
MaxChunks == 3
\* concurrent callers of SoftStop, and of Abort
MaxCallers == 2
\* signals handed to one relay
MaxSignals == 4
\* records of a ledger read by --resume
MaxResumeRecords == 3
\* events handed to one Shell.Run before the channel is closed or left open
MaxShellEvents == 2
\* frames one Shell.Run may draw before no further render is asked for
MaxShellFrames == 3
\* chunks the child of one executeSession writes to the tee
MaxChildWrites == 2
\* bytes read by one InputRouter
MaxKeys == 4
\* chunks the copier reads of the output of a session that is recorded
MaxCopies == 2
\* calls of a Sentinel that carry no chunk: Finalize, Consume of other events
MaxSentinelCalls == 2
\* requests the operator makes of one session: hotkeys, hints and signals
MaxOperatorRequests == 4
\* bytes the operator types while the display of a session is up
MaxOperatorBytes == 2
\* calls each of SoftStop, SubmitHint and WriteInput is given in one session
MaxInputCalls == 2
\* records of the ledger the summarizer reads; largest max_commits and
\* chunk_size of its configuration
MaxSummaryRecords == 4
MaxSummaryCommits == 3
\* length of a text that reaches the log pane in pieces
MaxPaneText == 4
\* capacity of the ring of the log pane
MaxPaneLines == 2
\* chunks and flushes one log pane is handed
MaxPaneAppends == 4
\* lines of a ledger file that is there before the first append
MaxLedgerLines == 3
\* work sessions of one run of the epic loop
MaxSessions == 2

(***************************************************************************)
(* Characters and Go's strings package.                                    *)
(***************************************************************************)
LF == "\n"
CR == "\r"
SP == " "
TAB == "\t"

Max(a, b) == IF a >= b THEN a ELSE b
Min(a, b) == IF a <= b THEN a ELSE b

\* s[from:] with a 0-based offset, as a Go slice expression
Drop(s, n) == SubSeq(s, n + 1, Len(s))
\* s[:n]
Take(s, n) == SubSeq(s, 1, n)

HasPrefix(s, p) == Len(s) >= Len(p) /\ Take(s, Len(p)) = p

\* the first offset in lo..hi-1 at which sub occurs in s, -1 if there is
\* none; the range is halved so that a long text is searched at a small depth
\* the one element of a singleton set; Only({e(x) : x \in {v}}) is e(v) with v
\* computed once
Only(S) == CHOOSE x \in S : TRUE

RECURSIVE IndexIn(_, _, _, _)
IndexIn(s, sub, lo, hi) ==
    IF hi <= lo THEN -1
    ELSE IF hi = lo + 1
         THEN (IF SubSeq(s, lo + 1, lo + Len(sub)) = sub THEN lo ELSE -1)
    ELSE LET mid == (lo + hi) \div 2
             left == IndexIn(s, sub, lo, mid) IN
         IF left # -1 THEN left ELSE IndexIn(s, sub, mid, hi)

\* the last such offset
RECURSIVE LastIndexIn(_, _, _, _)
LastIndexIn(s, sub, lo, hi) ==
    IF hi <= lo THEN -1
    ELSE IF hi = lo + 1
         THEN (IF SubSeq(s, lo + 1, lo + Len(sub)) = sub THEN lo ELSE -1)
    ELSE LET mid == (lo + hi) \div 2
             right == LastIndexIn(s, sub, mid, hi) IN
         IF right # -1 THEN right ELSE LastIndexIn(s, sub, lo, mid)

\* strings.Index: the 0-based offset of the first occurrence, -1 if none
Index(s, sub) == IndexIn(s, sub, 0, Len(s) - Len(sub) + 1)

\* strings.LastIndex: the 0-based offset of the last occurrence, -1 if none
LastIndex(s, sub) == LastIndexIn(s, sub, 0, Len(s) - Len(sub) + 1)

Contains(s, sub) == Index(s, sub) >= 0

\* strings.ReplaceAll for a non-empty old: non-overlapping, left to right
RECURSIVE ReplaceAll(_, _, _)
ReplaceAll(s, old, new) ==
    LET i == Index(s, old) IN
    IF i = -1 THEN s
    ELSE Take(s, i) \o new \o ReplaceAll(Drop(s, i + Len(old)), old, new)

IsSpace(c) == c \in {SP, TAB, LF, CR}

RECURSIVE TrimLeft(_, _)
TrimLeft(s, cut) ==
    IF s # <<>> /\ Head(s) \in cut THEN TrimLeft(Tail(s), cut) ELSE s

RECURSIVE TrimRight(_, _)
TrimRight(s, cut) ==
    IF s # <<>> /\ s[Len(s)] \in cut THEN TrimRight(Take(s, Len(s) - 1), cut) ELSE s

TrimSpace(s) == TrimRight(TrimLeft(s, {SP, TAB, LF, CR}), {SP, TAB, LF, CR})

UpperLetters == <<"A","B","C","D","E","F","G","H","I","J","K","L","M",
                  "N","O","P","Q","R","S","T","U","V","W","X","Y","Z">>
LowerLetters == <<"a","b","c","d","e","f","g","h","i","j","k","l","m",
                  "n","o","p","q","r","s","t","u","v","w","x","y","z">>

LowerChar(c) ==
    IF \E i \in 1..26 : UpperLetters[i] = c
    THEN LowerLetters[CHOOSE i \in 1..26 : UpperLetters[i] = c]
    ELSE c

ToLower(s) == [i \in 1..Len(s) |-> LowerChar(s[i])]

EqualFold(a, b) == ToLower(a) = ToLower(b)

\* strings.Split(s, sep) for a one-character separator
RECURSIVE Split(_, _)
Split(s, sep) ==
    LET i == Index(s, <<sep>>) IN
    IF i = -1 THEN <<s>>
    ELSE <<Take(s, i)>> \o Split(Drop(s, i + 1), sep)

RECURSIVE Join(_, _)
Join(parts, sep) ==
    IF parts = <<>> THEN <<>>
    ELSE IF Len(parts) = 1 THEN parts[1]
    ELSE parts[1] \o <<sep>> \o Join(Tail(parts), sep)

\* every string over alphabet of length lo..hi
StringsOver(alphabet, lo, hi) ==
    UNION {[1..n -> alphabet] : n \in lo..hi}

(***************************************************************************)
(* Redaction (interactive.secretRedactor, app.redactText).                 *)
(***************************************************************************)
Placeholder == <<"[","R","E","D","A","C","T","E","D","]">>

\* newSecretRedactor keeps the secrets that are not blank
RECURSIVE cleanSecrets(_)
cleanSecrets(secrets) ==
    IF secrets = <<>> THEN <<>>
    ELSE IF TrimSpace(Head(secrets)) = <<>> THEN cleanSecrets(Tail(secrets))
    ELSE <<Head(secrets)>> \o cleanSecrets(Tail(secrets))

\* the loop of secretRedactor.Redact: one ReplaceAll per secret, in order
RECURSIVE redactLoop(_, _)
redactLoop(out, secrets) ==
    IF secrets = <<>> THEN out
    ELSE redactLoop(ReplaceAll(out, Head(secrets), Placeholder), Tail(secrets))

Redact(input, secrets) == redactLoop(input, cleanSecrets(secrets))

\* the loop of redactText: each secret is trimmed, blank ones are skipped
RECURSIVE redactTextLoop(_, _, _)
redactTextLoop(out, redacted, secrets) ==
    IF secrets = <<>> THEN [text |-> out, redacted |-> redacted]
    ELSE LET secret == TrimSpace(Head(secrets)) IN
         IF secret = <<>> THEN redactTextLoop(out, redacted, Tail(secrets))
         ELSE IF Contains(out, secret)
              THEN redactTextLoop(ReplaceAll(out, secret, Placeholder), TRUE, Tail(secrets))
              ELSE redactTextLoop(out, redacted, Tail(secrets))

redactText(input, secrets) ==
    IF Len(secrets) = 0 THEN [text |-> input, redacted |-> FALSE]
    ELSE redactTextLoop(input, FALSE, secrets)

ContainsAnySecret(text, secrets) ==
    \E i \in 1..Len(secrets) : Contains(text, secrets[i])


\* the characters redaction is exercised on: two letters and the bracket the
\* placeholder opens with
RedactAlphabet == {"a", "b", "["}

SecretSets ==
    UNION {[1..n -> StringsOver(RedactAlphabet, 1, MaxSecretLen)] : n \in 1..MaxSecrets}

redactWith(which, text, secrets) ==
    IF which = "runner" THEN Redact(text, secrets)
    ELSE redactText(text, secrets).text

RedactIdle ==
    /\ rWhich = "none" /\ rSecrets = <<>> /\ rText = <<>>
    /\ rOut = <<>> /\ rOut2 = <<>> /\ rPc = "idle"

RedactInit ==
    /\ rWhich \in {"runner", "orchestrator"}
    /\ rSecrets \in SecretSets
    /\ rText \in StringsOver(RedactAlphabet, 0, MaxTextLen)
    /\ rOut = <<>> /\ rOut2 = <<>> /\ rPc = "start"

\* redact(T, S)
RedactOnce ==
    /\ rPc = "start"
    /\ rOut' = redactWith(rWhich, rText, rSecrets)
    /\ rPc' = "once"
    /\ UNCHANGED <<rWhich, rSecrets, rText, rOut2>>
    /\ UNCHANGED nonRedVars

\* redact(redact(T, S), S)
RedactAgain ==
    /\ rPc = "once"
    /\ rOut2' = redactWith(rWhich, rOut, rSecrets)
    /\ rPc' = "twice"
    /\ UNCHANGED <<rWhich, rSecrets, rText, rOut>>
    /\ UNCHANGED nonRedVars


(***************************************************************************)
(* streamWriter.Write and eventLogWriter.Write: the output pipeline that   *)
(* io.Copy drives with whatever chunks the PTY read returns.               *)
(***************************************************************************)
StreamAlphabet == {"a", "b"}

StreamSecretSets ==
    UNION {[1..n -> StringsOver(StreamAlphabet, 1, MaxSecretLen)] : n \in 1..MaxSecrets}

StreamIdle ==
    /\ wSecrets = <<>> /\ wStream = <<>> /\ wPos = 0
    /\ wLive = <<>> /\ wBuilder = <<>> /\ wTee = <<>> /\ wEvents = <<>>

StreamInit ==
    /\ wSecrets \in StreamSecretSets
    /\ wStream \in StringsOver(StreamAlphabet, 1, MaxTextLen)
    /\ wPos = 0
    /\ wLive = <<>> /\ wBuilder = <<>> /\ wTee = <<>> /\ wEvents = <<>>

\* one Write(p) of the stream writer: p goes verbatim to the live writer, which
\* also emits it as a log chunk; then p is redacted on its own and appended to
\* the cumulative buffer and to the tee. An event is kept with the lengths
\* the buffer and the tee had when it was emitted.
streamWrite(p) ==
    LET redacted == Redact(p, wSecrets) IN
    /\ wLive' = wLive \o p
    /\ wEvents' = Append(wEvents, [Chunk |-> p, buffered |-> Len(wBuilder),
                                   teed |-> Len(wTee)])
    /\ wBuilder' = wBuilder \o redacted
    /\ wTee' = wTee \o redacted

StreamWrite ==
    \E n \in 1..(Len(wStream) - wPos) :
        /\ streamWrite(SubSeq(wStream, wPos + 1, wPos + n))
        /\ wPos' = wPos + n
        /\ UNCHANGED <<wSecrets, wStream>>
    /\ UNCHANGED nonStreamVars

(***************************************************************************)
(* fenced.Parser                                                           *)
(***************************************************************************)
\* the grave accent, which a TLA+ string cannot hold
Backtick == "BACKTICK"
FencePrefix == <<Backtick,Backtick,Backtick,"o","b","i",":">>
FenceClose == <<Backtick,Backtick,Backtick>>
KeyStatus == <<"s","t","a","t","u","s">>
KeyCommitMsg == <<"c","o","m","m","i","t","_","m","s","g">>
KeyDetails == <<"d","e","t","a","i","l","s">>
KeyEscalation == <<"e","s","c","a","l","a","t","i","o","n">>
StatusSuccess == <<"s","u","c","c","e","s","s">>
StatusFailure == <<"n","e","e","d","s","_","h","e","l","p">>
Colon == ":"
Pipe == "|"

EmptyResult ==
    [SessionID |-> <<>>, Status |-> <<>>, CommitMsg |-> <<>>,
     Details |-> <<>>, Escalation |-> <<>>]

NewParser(sessionID) ==
    [expectedID |-> TrimSpace(sessionID), state |-> "seeking", hold |-> <<>>,
     result |-> EmptyResult, done |-> FALSE, collectingDetails |-> FALSE,
     details |-> <<>>]

Ok(p) == [p |-> p, err |-> "ok"]
Fail(p, e) == [p |-> p, err |-> e]

finishDetails(p) ==
    LET text == TrimRight(p.details, {LF}) IN
    IF TrimSpace(text) = <<>> THEN Fail(p, "details block must include content")
    ELSE Ok([p EXCEPT !.result.Details = text])

\* the checks of the fields that every report carries
validateResultCommon(p) ==
    IF p.result.SessionID = <<>> THEN "fenced report missing session id"
    ELSE IF p.result.Status = <<>> THEN "fenced report missing status line"
    ELSE IF p.result.CommitMsg = <<>> THEN "fenced report missing commit_msg line"
    ELSE IF p.result.Details = <<>> THEN "fenced report missing details block"
    ELSE "ok"
validateResult(p) ==
    IF p.result.SessionID = <<>> THEN "fenced report missing session id"
    ELSE IF p.result.Status = <<>> THEN "fenced report missing status line"
    ELSE IF p.result.CommitMsg = <<>> THEN "fenced report missing commit_msg line"
    ELSE IF p.result.Details = <<>> THEN "fenced report missing details block"
    ELSE IF p.result.Status = StatusFailure /\ TrimSpace(p.result.Escalation) = <<>>
         THEN "status requires escalation"
    ELSE "ok"

isFieldLine(line) ==
    IF line = <<>> THEN FALSE
    ELSE IF HasPrefix(line, <<Backtick>>) THEN FALSE
    ELSE Contains(line, <<Colon>>)

stripIndent(line) ==
    IF line = <<>> THEN <<>>
    ELSE IF HasPrefix(line, <<TAB>>) THEN Drop(line, 1)
    ELSE IF HasPrefix(line, <<SP, SP>>) THEN Drop(line, 2)
    ELSE IF HasPrefix(line, <<SP>>) THEN Drop(line, 1)
    ELSE line

startsIndented(line) ==
    IF line = <<>> THEN FALSE ELSE line[1] \in {SP, TAB}

\* the closing-fence branch shared by handleLine and consumeDetailLine:
\* finish a pending details block, validate, and latch done
closeReport(p, finishFirst) ==
    Only({IF f.err # "ok" THEN f
          ELSE Only({IF validateResult(p1) # "ok" THEN Fail(p1, validateResult(p1))
                     ELSE Ok([p1 EXCEPT !.done = TRUE, !.state = "finished"]) :
                     p1 \in {[f.p EXCEPT !.collectingDetails = FALSE]}}) :
          f \in {IF finishFirst THEN finishDetails(p) ELSE Ok(p)}})

processField(p, line) ==
    LET idx == Index(line, <<Colon>>) IN
    IF idx = -1 THEN Fail(p, "malformed line inside fenced report")
    ELSE
    LET key == ToLower(TrimSpace(Take(line, idx)))
        value == TrimSpace(Drop(line, idx + 1)) IN
    IF key = KeyStatus THEN
        IF value = <<>> THEN Fail(p, "status field is empty")
        ELSE IF ToLower(value) # StatusSuccess /\ ToLower(value) # StatusFailure
             THEN Fail(p, "invalid status")
        ELSE Ok([p EXCEPT !.result.Status = ToLower(value)])
    ELSE IF key = KeyCommitMsg THEN
        IF value = <<>> THEN Fail(p, "commit_msg field is empty")
        ELSE Ok([p EXCEPT !.result.CommitMsg = value])
    ELSE IF key = KeyDetails THEN
        IF p.result.Details # <<>> \/ p.collectingDetails
        THEN Fail(p, "details field specified multiple times")
        ELSE IF value = <<>> THEN Fail(p, "details field is empty")
        ELSE IF value = <<Pipe>>
             THEN Ok([p EXCEPT !.collectingDetails = TRUE, !.details = <<>>])
        ELSE Ok([p EXCEPT !.result.Details = value])
    ELSE IF key = KeyEscalation THEN
        Ok([p EXCEPT !.result.Escalation = value])
    ELSE Fail(p, "unknown field in fenced report")

\* returns consumed = FALSE when the caller should reprocess the line as a field
consumeDetailLine(p, line) ==
    LET trimmed == TrimSpace(line) IN
    IF trimmed = <<>>
    THEN [p |-> [p EXCEPT !.details = p.details \o <<LF>>], consumed |-> TRUE, err |-> "ok"]
    ELSE IF trimmed = FenceClose
    THEN Only({[p |-> c.p, consumed |-> c.err = "ok", err |-> c.err] :
               c \in {closeReport(p, TRUE)}})
    ELSE IF ~startsIndented(line) /\ isFieldLine(trimmed)
    THEN Only({IF f.err # "ok" THEN [p |-> f.p, consumed |-> FALSE, err |-> f.err]
               ELSE [p |-> [f.p EXCEPT !.collectingDetails = FALSE],
                     consumed |-> FALSE, err |-> "ok"] :
               f \in {finishDetails(p)}})
    ELSE [p |-> [p EXCEPT !.details = p.details \o stripIndent(line) \o <<LF>>],
          consumed |-> TRUE, err |-> "ok"]

handleLine(p, line) ==
    LET trimmed == TrimSpace(line) IN
    IF p.state = "seeking" THEN
        IF HasPrefix(ToLower(trimmed), FencePrefix) THEN
            LET sessionID == TrimSpace(Drop(trimmed, Len(FencePrefix))) IN
            IF sessionID = <<>> THEN Fail(p, "fence missing session id")
            ELSE IF p.expectedID # <<>> /\ sessionID # p.expectedID
                 THEN Fail(p, "fence session id does not match expected")
            ELSE Ok([p EXCEPT !.state = "inBody",
                              !.result = [EmptyResult EXCEPT !.SessionID = sessionID]])
        ELSE Ok(p)
    ELSE IF p.state = "inBody" THEN
        IF trimmed = FenceClose THEN closeReport(p, p.collectingDetails)
        ELSE IF p.collectingDetails THEN
            Only({IF c.err # "ok" THEN Fail(c.p, c.err)
                  ELSE IF c.consumed THEN Ok(c.p)
                  ELSE IF trimmed = <<>> THEN Ok(c.p)
                  ELSE processField(c.p, trimmed) :
                  c \in {consumeDetailLine(p, line)}})
        ELSE IF trimmed = <<>> THEN Ok(p)
        ELSE processField(p, trimmed)
    ELSE Ok(p)

\* what Feed and Finalize return, with the parser they leave behind
Returned(p, res, done, err) == [p |-> p, res |-> res, done |-> done, err |-> err]

\* the for loop of Feed: one handleLine per complete line of hold
RECURSIVE feedLoop(_)
feedLoop(p) ==
    LET idx == Index(p.hold, <<LF>>) IN
    IF idx = -1 THEN Returned(p, EmptyResult, FALSE, "ok")
    ELSE Only({IF h.err # "ok" THEN Returned(h.p, EmptyResult, FALSE, h.err)
               ELSE IF h.p.done THEN Returned(h.p, h.p.result, TRUE, "ok")
               ELSE feedLoop(h.p) :
               h \in {handleLine([p EXCEPT !.hold = Drop(p.hold, idx + 1)],
                                 Take(p.hold, idx))}})

\* "\r\n" and then every remaining "\r" of the chunk become "\n"
foldNewlines(chunk) == ReplaceAll(ReplaceAll(chunk, <<CR, LF>>, <<LF>>), <<CR>>, <<LF>>)

Feed(p, chunk) ==
    IF chunk = <<>> \/ p.done THEN
        IF p.done THEN Returned(p, p.result, TRUE, "ok")
        ELSE Returned(p, EmptyResult, FALSE, "ok")
    ELSE Only({feedLoop(q) : q \in {[p EXCEPT !.hold = p.hold \o foldNewlines(chunk)]}})

Finalize(p) ==
    IF p.done THEN Returned(p, p.result, TRUE, "ok")
    ELSE
    Only({IF h.err # "ok" THEN Returned(h.p, EmptyResult, FALSE, h.err)
          ELSE Only({IF p1.done THEN Returned(p1, p1.result, TRUE, "ok")
                     ELSE IF p1.state = "seeking"
                          THEN Returned(p1, EmptyResult, FALSE, "fenced report not found")
                     ELSE IF p1.state = "inBody"
                          THEN Returned(p1, EmptyResult, FALSE,
                                        "fenced report did not close before stream ended")
                     ELSE Returned(p1, EmptyResult, FALSE, "unexpected parser state") :
                     p1 \in {[h.p EXCEPT !.hold = <<>>]}}) :
          h \in {IF p.hold # <<>> THEN handleLine(p, p.hold) ELSE Ok(p)}})

Outcome(r) == [res |-> r.res, done |-> r.done, err |-> r.err]


(***************************************************************************)
(* Streams given to the parser: one noise line, then one well-formed       *)
(* fenced report for session SampleID, with LF or CRLF line endings, an    *)
(* inline or a block details field, and either status.                     *)
(***************************************************************************)
SampleID == <<"s","1">>
NoiseLine == <<"b","o","o","t">>
StatusField == <<"s","t","a","t","u","s",":",SP>>
CommitField == <<"c","o","m","m","i","t","_","m","s","g",":",SP,"m">>
DetailsInline == <<"d","e","t","a","i","l","s",":",SP,"x">>
DetailsBlockHead == <<"d","e","t","a","i","l","s",":",SP,"|">>
DetailsBlockLine1 == <<SP,SP,"x">>
DetailsBlockLine2 == <<SP,SP,"y">>
EscalationField == <<"e","s","c","a","l","a","t","i","o","n",":",SP,"e">>

ReportText(eol, block, status) ==
    NoiseLine \o eol
    \o FencePrefix \o SampleID \o eol
    \o StatusField \o status \o eol
    \o CommitField \o eol
    \o (IF block THEN DetailsBlockHead \o eol \o DetailsBlockLine1 \o eol
                      \o DetailsBlockLine2 \o eol
        ELSE DetailsInline \o eol)
    \o (IF status = StatusFailure THEN EscalationField \o eol ELSE <<>>)
    \o FenceClose \o eol

WellFormedTexts ==
    {ReportText(eol, block, status) :
        eol \in {<<LF>>, <<CR, LF>>}, block \in BOOLEAN,
        status \in {StatusSuccess, StatusFailure}}

\* NewSentinel, and what Consume and Finalize hand back
NewSentinel(sessionID) ==
    [parser |-> NewParser(sessionID), result |-> EmptyResult, done |-> FALSE,
     err |-> "ok"]
SentinelReturn(s, res, done, err) == [s |-> s, res |-> res, done |-> done, err |-> err]
NothingLatched == [set |-> FALSE, res |-> EmptyResult, done |-> FALSE, err |-> "ok"]

SentinelIdle ==
    /\ snl = NewSentinel(<<>>)
    /\ snRet = Outcome(SentinelReturn(snl, EmptyResult, FALSE, "ok"))
    /\ snLatched = NothingLatched /\ snRest = <<>> /\ snCalls = 0

ParserIdle ==
    /\ pText = <<>> /\ pRest = <<>> /\ parser = NewParser(<<>>)
    /\ pOutcome = Outcome(Returned(parser, EmptyResult, FALSE, "ok")) /\ pPc = "idle"
    /\ SentinelIdle

ParserInit ==
    /\ pText \in WellFormedTexts
    /\ pRest = pText
    /\ parser = NewParser(SampleID)
    /\ pOutcome = Outcome(Returned(parser, EmptyResult, FALSE, "ok"))
    /\ pPc = "feeding"
    /\ SentinelIdle

\* Feed(chunk) with the next chunk of the stream, cut anywhere: the chunk is
\* a short one or all that is left
ParserFeed ==
    /\ pPc = "feeding"
    /\ \E n \in {k \in 1..Len(pRest) : k <= MaxChunkLen \/ k = Len(pRest)} :
        \E r \in {Feed(parser, Take(pRest, n))} :
        /\ parser' = r.p
        /\ pOutcome' = Outcome(r)
        /\ pRest' = Drop(pRest, n)
    /\ UNCHANGED <<pText, pPc>>
    /\ UNCHANGED <<snl, snRet, snLatched, snRest, snCalls>>
    /\ UNCHANGED nonParserVars

\* Finalize() once the stream has ended
ParserFinalize ==
    /\ pPc = "feeding"
    /\ pRest = <<>>
    /\ \E r \in {Finalize(parser)} :
        /\ parser' = r.p
        /\ pOutcome' = Outcome(r)
    /\ pPc' = "finalized"
    /\ UNCHANGED <<pText, pRest>>
    /\ UNCHANGED <<snl, snRet, snLatched, snRest, snCalls>>
    /\ UNCHANGED nonParserVars

\* the whole text as one chunk, then Finalize
OneShot(sessionID, text) ==
    Only({Outcome(Finalize(fed.p)) : fed \in {Feed(NewParser(sessionID), text)}})

(***************************************************************************)
(* interactive.SessionRunner: one session.                                 *)
(***************************************************************************)
eventBufferSize == 64

Callers == 1..MaxCallers

Evt(kind) == [kind |-> kind, code |-> 0, err |-> FALSE]
ExitEvt(code, err) == [kind |-> "Exit", code |-> code, err |-> err]

NewEvents == [chan |-> <<>>, sent |-> <<>>, dropped |-> {}, closed |-> FALSE,
              panicked |-> FALSE]

\* eventEmitter.send: a non-blocking send; a full buffer drops the event,
\* whatever its type, and a closed channel panics
send(e, evt) ==
    IF e.closed THEN [e EXCEPT !.panicked = TRUE]
    ELSE IF Len(e.chan) < eventBufferSize
         THEN [e EXCEPT !.chan = Append(e.chan, evt), !.sent = Append(e.sent, evt)]
    ELSE [e EXCEPT !.dropped = e.dropped \cup {evt.kind}]

closeEvents(e) ==
    IF e.closed THEN [e EXCEPT !.panicked = TRUE] ELSE [e EXCEPT !.closed = TRUE]

Running == sState = "started" /\ ~ev.panicked

SessionIdle ==
    /\ sState = "idle" /\ ev = NewEvents /\ chunkBudget = 0 /\ copied = 0
    /\ copierDone = FALSE /\ streamErr = FALSE /\ procExited = FALSE
    /\ waitErr = "none" /\ wPc = "wait" /\ handleNil = FALSE /\ ttyClosed = FALSE
    /\ result = [code |-> 0, err |-> FALSE]
    /\ softStopMu = 0 /\ softStopIssued = FALSE
    /\ ssPc = [c \in Callers |-> "idle"] /\ ssRet = [c \in Callers |-> "none"]
    /\ abortOnce = "fresh"
    /\ abPc = [c \in Callers |-> "idle"] /\ abRet = [c \in Callers |-> "none"]
    /\ markerWrites = 0 /\ signalsSent = 0

SessionInit(budget) ==
    /\ sState = "init" /\ ev = NewEvents /\ chunkBudget = budget /\ copied = 0
    /\ copierDone = FALSE /\ streamErr = FALSE /\ procExited = FALSE
    /\ waitErr = "none" /\ wPc = "wait" /\ handleNil = FALSE /\ ttyClosed = FALSE
    /\ result = [code |-> 0, err |-> FALSE]
    /\ softStopMu = 0 /\ softStopIssued = FALSE
    /\ ssPc = [c \in Callers |-> "idle"] /\ ssRet = [c \in Callers |-> "none"]
    /\ abortOnce = "fresh"
    /\ abPc = [c \in Callers |-> "idle"] /\ abRet = [c \in Callers |-> "none"]
    /\ markerWrites = 0 /\ signalsSent = 0

copierVars == <<copied, copierDone, streamErr>>
waiterVars == <<wPc, handleNil, ttyClosed, result>>
softStopVars == <<softStopMu, softStopIssued, ssPc, ssRet, markerWrites>>
abortVars == <<abortOnce, abPc, abRet, signalsSent>>

\* Start, the launch succeeding: Starting, Running, then the copier and the
\* wait watcher are spawned
StartOK ==
    /\ sState = "init"
    /\ ev' = send(send(ev, Evt("Starting")), Evt("Running"))
    /\ sState' = "started"
    /\ UNCHANGED <<chunkBudget, copierVars, procExited, waitErr, waiterVars,
                   softStopVars, abortVars>>
    /\ UNCHANGED nonSessVars

\* Start, the launch failing: Starting, then close(events)
StartFail ==
    /\ sState = "init"
    /\ ev' = closeEvents(send(ev, Evt("Starting")))
    /\ sState' = "launchFailed"
    /\ UNCHANGED <<chunkBudget, copierVars, procExited, waitErr, waiterVars,
                   softStopVars, abortVars>>
    /\ UNCHANGED nonSessVars

\* io.Copy: one read from the PTY and one Write of the stream writer, which
\* emits the chunk as a LogChunk
CopyChunk ==
    /\ Running /\ ~copierDone /\ copied < chunkBudget
    /\ copied' = copied + 1
    /\ ev' = send(ev, Evt("LogChunk"))
    /\ UNCHANGED <<sState, chunkBudget, copierDone, streamErr, procExited, waitErr,
                   waiterVars, softStopVars, abortVars>>
    /\ UNCHANGED nonSessVars

\* io.Copy returns once the child's side of the PTY is gone: nil on EOF, or
\* the read error
CopierEnd ==
    /\ Running /\ ~copierDone /\ procExited
    /\ copierDone' = TRUE
    /\ streamErr' \in BOOLEAN
    /\ UNCHANGED <<sState, ev, chunkBudget, copied, procExited, waitErr,
                   waiterVars, softStopVars, abortVars>>
    /\ UNCHANGED nonSessVars

\* the child process exits: cleanly, with an exit code, or wait fails otherwise
ProcExit ==
    /\ Running /\ ~procExited
    /\ procExited' = TRUE
    /\ waitErr' \in {"none", "exitcode", "other"}
    /\ UNCHANGED <<sState, ev, chunkBudget, copierVars, waiterVars,
                   softStopVars, abortVars>>
    /\ UNCHANGED nonSessVars

\* startWait: handle.wait() returns
WaitReturn ==
    /\ Running /\ wPc = "wait" /\ procExited
    /\ wPc' = "stream"
    /\ UNCHANGED <<sState, ev, chunkBudget, copierVars, procExited, waitErr,
                   handleNil, ttyClosed, result, softStopVars, abortVars>>
    /\ UNCHANGED nonSessVars

\* startWait: <-streamDone, then tty.Close()
WaitStream ==
    /\ Running /\ wPc = "stream" /\ copierDone
    /\ ttyClosed' = TRUE
    /\ wPc' = "finish"
    /\ UNCHANGED <<sState, ev, chunkBudget, copierVars, procExited, waitErr,
                   handleNil, result, softStopVars, abortVars>>
    /\ UNCHANGED nonSessVars

\* the Result and error startWait hands to finish
waitOutcome ==
    IF streamErr THEN [code |-> 0, err |-> TRUE]
    ELSE IF waitErr = "exitcode" THEN [code |-> 2, err |-> FALSE]
    ELSE IF waitErr = "other" THEN [code |-> 0, err |-> TRUE]
    ELSE [code |-> 0, err |-> FALSE]

\* finish: resultOnce stores the result (exit code 1 for a failed run that
\* has none), then s.handle = nil
WaitFinish ==
    /\ Running /\ wPc = "finish"
    /\ result' = IF waitOutcome.err /\ waitOutcome.code = 0
                 THEN [waitOutcome EXCEPT !.code = 1] ELSE waitOutcome
    /\ handleNil' = TRUE
    /\ wPc' = "emit1"
    /\ UNCHANGED <<sState, ev, chunkBudget, copierVars, procExited, waitErr,
                   ttyClosed, softStopVars, abortVars>>
    /\ UNCHANGED nonSessVars

\* finish: state(Exited), or state(Stopping) first when the run failed
WaitEmitFirst ==
    /\ Running /\ wPc = "emit1"
    /\ IF result.err
       THEN ev' = send(ev, Evt("Stopping")) /\ wPc' = "emit2"
       ELSE ev' = send(ev, Evt("Exited")) /\ wPc' = "emitExit"
    /\ UNCHANGED <<sState, chunkBudget, copierVars, procExited, waitErr,
                   handleNil, ttyClosed, result, softStopVars, abortVars>>
    /\ UNCHANGED nonSessVars

WaitEmitExited ==
    /\ Running /\ wPc = "emit2"
    /\ ev' = send(ev, Evt("Exited"))
    /\ wPc' = "emitExit"
    /\ UNCHANGED <<sState, chunkBudget, copierVars, procExited, waitErr,
                   handleNil, ttyClosed, result, softStopVars, abortVars>>
    /\ UNCHANGED nonSessVars

\* finish: exit(code, err)
WaitEmitExit ==
    /\ Running /\ wPc = "emitExit"
    /\ ev' = send(ev, ExitEvt(result.code, result.err))
    /\ wPc' = "close"
    /\ UNCHANGED <<sState, chunkBudget, copierVars, procExited, waitErr,
                   handleNil, ttyClosed, result, softStopVars, abortVars>>
    /\ UNCHANGED nonSessVars

\* finish: close(s.events)
WaitClose ==
    /\ Running /\ wPc = "close"
    /\ ev' = closeEvents(ev)
    /\ wPc' = "done"
    /\ UNCHANGED <<sState, chunkBudget, copierVars, procExited, waitErr,
                   handleNil, ttyClosed, result, softStopVars, abortVars>>
    /\ UNCHANGED nonSessVars

\* softStop: take softStopMu, return nil if a soft stop was issued, "tty
\* closed" if the handle is nil
SoftStopEnter(c) ==
    /\ Running /\ ssPc[c] = "idle" /\ softStopMu = 0
    /\ IF softStopIssued
       THEN /\ ssPc' = [ssPc EXCEPT ![c] = "done"]
            /\ ssRet' = [ssRet EXCEPT ![c] = "noop"]
            /\ UNCHANGED softStopMu
       ELSE IF handleNil
       THEN /\ ssPc' = [ssPc EXCEPT ![c] = "done"]
            /\ ssRet' = [ssRet EXCEPT ![c] = "tty closed"]
            /\ UNCHANGED softStopMu
       ELSE /\ ssPc' = [ssPc EXCEPT ![c] = "write"]
            /\ softStopMu' = c
            /\ UNCHANGED ssRet
    /\ UNCHANGED <<sState, ev, chunkBudget, copierVars, procExited, waitErr,
                   waiterVars, softStopIssued, markerWrites, abortVars>>
    /\ UNCHANGED nonSessVars

\* softStop: io.WriteString(s.handle.tty, message). s.handle is read again,
\* unsynchronized with finish: a nil handle panics, or the stale handle's
\* closed tty fails the write
SoftStopWrite(c) ==
    /\ Running /\ ssPc[c] = "write"
    /\ \E outcome \in (IF handleNil THEN {"panic", "error"}
                       ELSE IF ttyClosed THEN {"error"}
                       ELSE IF procExited THEN {"ok", "error"}
                       ELSE {"ok"}) :
        /\ ev' = IF outcome = "panic" THEN [ev EXCEPT !.panicked = TRUE] ELSE ev
        /\ markerWrites' = IF outcome = "ok" THEN markerWrites + 1 ELSE markerWrites
        /\ ssPc' = [ssPc EXCEPT ![c] = IF outcome = "ok" THEN "emit" ELSE "done"]
        /\ ssRet' = [ssRet EXCEPT ![c] = IF outcome = "ok" THEN @ ELSE "write error"]
        /\ softStopMu' = IF outcome = "error" THEN 0 ELSE softStopMu
    /\ UNCHANGED <<sState, chunkBudget, copierVars, procExited, waitErr,
                   waiterVars, softStopIssued, abortVars>>
    /\ UNCHANGED nonSessVars

\* softStop: softStopIssued = true, state(Stopping), unlock;
\* SoftStopEmitUnlatched is the same step without the assignment to
\* softStopIssued
SoftStopEmitUnlatched(c) ==
    /\ Running /\ ssPc[c] = "emit"
    /\ ev' = send(ev, Evt("Stopping"))
    /\ ssPc' = [ssPc EXCEPT ![c] = "done"]
    /\ ssRet' = [ssRet EXCEPT ![c] = "ok"]
    /\ softStopMu' = 0
    /\ UNCHANGED <<sState, chunkBudget, copierVars, procExited, waitErr,
                   waiterVars, softStopIssued, markerWrites, abortVars>>
    /\ UNCHANGED nonSessVars
SoftStopEmit(c) ==
    /\ Running /\ ssPc[c] = "emit"
    /\ softStopIssued' = TRUE
    /\ ev' = send(ev, Evt("Stopping"))
    /\ ssPc' = [ssPc EXCEPT ![c] = "done"]
    /\ ssRet' = [ssRet EXCEPT ![c] = "ok"]
    /\ softStopMu' = 0
    /\ UNCHANGED <<sState, chunkBudget, copierVars, procExited, waitErr,
                   waiterVars, markerWrites, abortVars>>
    /\ UNCHANGED nonSessVars

\* abort: abortOnce.Do; a later caller returns nil once the first has finished
AbortEnter(c) ==
    /\ Running /\ abPc[c] = "idle" /\ abortOnce # "running"
    /\ IF abortOnce = "done"
       THEN /\ abPc' = [abPc EXCEPT ![c] = "done"]
            /\ abRet' = [abRet EXCEPT ![c] = "noop"]
            /\ UNCHANGED abortOnce
       ELSE IF handleNil
       THEN /\ abPc' = [abPc EXCEPT ![c] = "done"]
            /\ abRet' = [abRet EXCEPT ![c] = "session not running"]
            /\ abortOnce' = "done"
       ELSE /\ abPc' = [abPc EXCEPT ![c] = "signal"]
            /\ abortOnce' = "running"
            /\ UNCHANGED abRet
    /\ UNCHANGED <<sState, ev, chunkBudget, copierVars, procExited, waitErr,
                   waiterVars, softStopVars, signalsSent>>
    /\ UNCHANGED nonSessVars

\* abort: s.handle.signal(os.Interrupt). The signal succeeds until
\* handle.wait() has returned
AbortSignal(c) ==
    /\ Running /\ abPc[c] = "signal"
    /\ \E outcome \in (IF handleNil THEN {"panic", "error"}
                       ELSE IF wPc # "wait" THEN {"error"}
                       ELSE {"ok"}) :
        /\ ev' = IF outcome = "panic" THEN [ev EXCEPT !.panicked = TRUE] ELSE ev
        /\ signalsSent' = IF outcome = "ok" THEN signalsSent + 1 ELSE signalsSent
        /\ abPc' = [abPc EXCEPT ![c] = IF outcome = "ok" THEN "emit" ELSE "done"]
        /\ abRet' = [abRet EXCEPT ![c] = IF outcome = "ok" THEN @ ELSE "signal error"]
        /\ abortOnce' = IF outcome = "error" THEN "done" ELSE abortOnce
    /\ UNCHANGED <<sState, chunkBudget, copierVars, procExited, waitErr,
                   waiterVars, softStopVars>>
    /\ UNCHANGED nonSessVars

\* abort: state(Stopping) after a successful signal;
\* AbortEmitReopened is the same step leaving abortOnce as a fresh Once
AbortEmitReopened(c) ==
    /\ Running /\ abPc[c] = "emit"
    /\ ev' = send(ev, Evt("Stopping"))
    /\ abPc' = [abPc EXCEPT ![c] = "done"]
    /\ abRet' = [abRet EXCEPT ![c] = "ok"]
    /\ abortOnce' = "fresh"
    /\ UNCHANGED <<sState, chunkBudget, copierVars, procExited, waitErr,
                   waiterVars, softStopVars, signalsSent>>
    /\ UNCHANGED nonSessVars
AbortEmit(c) ==
    /\ Running /\ abPc[c] = "emit"
    /\ ev' = send(ev, Evt("Stopping"))
    /\ abPc' = [abPc EXCEPT ![c] = "done"]
    /\ abRet' = [abRet EXCEPT ![c] = "ok"]
    /\ abortOnce' = "done"
    /\ UNCHANGED <<sState, chunkBudget, copierVars, procExited, waitErr,
                   waiterVars, softStopVars, signalsSent>>
    /\ UNCHANGED nonSessVars

\* the consumer of Events() receives one event
Recv ==
    /\ ~ev.panicked /\ ev.chan # <<>>
    /\ ev' = [ev EXCEPT !.chan = Tail(ev.chan)]
    /\ UNCHANGED <<sState, chunkBudget, copierVars, procExited, waitErr,
                   waiterVars, softStopVars, abortVars>>
    /\ UNCHANGED nonSessVars

Kinds(events) == [i \in 1..Len(events) |-> events[i].kind]

CountKind(events, kind) == Cardinality({i \in 1..Len(events) : events[i].kind = kind})

\* the state reached by the automaton of
\* (Starting)? Running LogChunk* (Stopping)? Exited Exit ; -1 is the dead state
LifecycleStep(q, kind) ==
    IF q = 0 /\ kind = "Starting" THEN 1
    ELSE IF q \in {0, 1} /\ kind = "Running" THEN 2
    ELSE IF q = 2 /\ kind = "LogChunk" THEN 2
    ELSE IF q = 2 /\ kind = "Stopping" THEN 3
    ELSE IF q \in {2, 3} /\ kind = "Exited" THEN 4
    ELSE IF q = 4 /\ kind = "Exit" THEN 5
    ELSE -1

RECURSIVE LifecycleRun(_, _)
LifecycleRun(q, kinds) ==
    IF kinds = <<>> THEN q
    ELSE LifecycleRun(LifecycleStep(q, Head(kinds)), Tail(kinds))

(***************************************************************************)
(* The results ledger (appendLedgerEntry and the schema upgrade).          *)
(*                                                                         *)
(* A ledger file is a sequence of newline-terminated lines; a line is      *)
(* blank or holds one JSON object, a function from its keys to its values. *)
(* JSON numbers are integers of the model's range, all of which a float64  *)
(* holds exactly.  Of the ledgerEntry fields the model keeps the ones the  *)
(* orchestrator computes; the other fields are strings copied from the     *)
(* plan and behave like session_id.                                        *)
(***************************************************************************)
ledgerSchemaVersion == <<"o","b","i",".","v","2">>

BlankLine == [kind |-> "blank"]
JsonLine(obj) == [kind |-> "json", obj |-> obj]

ZeroEntry ==
    [SchemaVersion |-> <<>>, SessionID |-> <<>>, EpicID |-> <<>>, BeadID |-> <<>>,
     Status |-> <<>>, CommitSummary |-> <<>>, CommitDetails |-> <<>>,
     Escalation |-> <<>>, StartedAt |-> 0, CompletedAt |-> 0, DurationMs |-> 0,
     ExitCode |-> 0, Redacted |-> FALSE]

\* time.Time is an instant in milliseconds; 0 is the zero time
durationMillis(start, end) ==
    IF start = 0 \/ end = 0 THEN 0
    ELSE IF end < start THEN 0
    ELSE end - start

\* json.Marshal(ledgerEntry): the omitempty fields appear only when set
entryKeys(e) ==
    {"schema_version", "session_id", "epic_id", "status", "commit_summary",
     "commit_details", "started_at", "completed_at", "duration_ms", "exit_code"}
    \cup (IF e.BeadID # <<>> THEN {"bead_id"} ELSE {})
    \cup (IF e.Escalation # <<>> THEN {"escalation"} ELSE {})
    \cup (IF e.Redacted THEN {"redacted"} ELSE {})

entryField(e, k) ==
    CASE k = "schema_version" -> e.SchemaVersion
      [] k = "session_id" -> e.SessionID
      [] k = "epic_id" -> e.EpicID
      [] k = "bead_id" -> e.BeadID
      [] k = "status" -> e.Status
      [] k = "commit_summary" -> e.CommitSummary
      [] k = "commit_details" -> e.CommitDetails
      [] k = "escalation" -> e.Escalation
      [] k = "started_at" -> e.StartedAt
      [] k = "completed_at" -> e.CompletedAt
      [] k = "duration_ms" -> e.DurationMs
      [] k = "exit_code" -> e.ExitCode
      [] k = "redacted" -> e.Redacted

marshalEntry(e) == [k \in entryKeys(e) |-> entryField(e, k)]

\* json.Unmarshal into a ledgerEntry: absent keys leave the zero value,
\* unknown keys are ignored
jsonGet(obj, k, zero) == IF k \in DOMAIN obj THEN obj[k] ELSE zero

unmarshalEntry(obj) ==
    [SchemaVersion |-> jsonGet(obj, "schema_version", <<>>),
     SessionID |-> jsonGet(obj, "session_id", <<>>),
     EpicID |-> jsonGet(obj, "epic_id", <<>>),
     BeadID |-> jsonGet(obj, "bead_id", <<>>),
     Status |-> jsonGet(obj, "status", <<>>),
     CommitSummary |-> jsonGet(obj, "commit_summary", <<>>),
     CommitDetails |-> jsonGet(obj, "commit_details", <<>>),
     Escalation |-> jsonGet(obj, "escalation", <<>>),
     StartedAt |-> jsonGet(obj, "started_at", 0),
     CompletedAt |-> jsonGet(obj, "completed_at", 0),
     DurationMs |-> jsonGet(obj, "duration_ms", 0),
     ExitCode |-> jsonGet(obj, "exit_code", 0),
     Redacted |-> jsonGet(obj, "redacted", FALSE)]

\* the fields appendLedgerEntry sets before it marshals the entry
stampEntry(entry) ==
    [entry EXCEPT !.SchemaVersion = ledgerSchemaVersion,
                  !.CommitSummary = TrimSpace(entry.CommitSummary),
                  !.CommitDetails = TrimSpace(entry.CommitDetails),
                  !.Escalation = TrimSpace(entry.Escalation),
                  !.DurationMs = durationMillis(entry.StartedAt, entry.CompletedAt)]

\* f.Write(append(record, '\n')) on a descriptor opened with O_APPEND;
\* writeRecordTruncating is the write a descriptor opened with O_TRUNC makes
writeRecordTruncating(lines, record) == <<JsonLine(record)>>
writeRecord(lines, record) == Append(lines, JsonLine(record))

\* the scan of ledgerEntriesForEpic: blank lines skipped, the epic filter
RECURSIVE ledgerEntriesForEpic(_, _)
ledgerEntriesForEpic(lines, epicID) ==
    IF lines = <<>> THEN <<>>
    ELSE IF Head(lines).kind = "blank" THEN ledgerEntriesForEpic(Tail(lines), epicID)
    ELSE LET entry == unmarshalEntry(Head(lines).obj)
             lowerEpic == ToLower(TrimSpace(epicID)) IN
         (IF lowerEpic = <<>> \/ EqualFold(TrimSpace(entry.EpicID), lowerEpic)
          THEN <<entry>> ELSE <<>>)
         \o ledgerEntriesForEpic(Tail(lines), epicID)

\* the scan of ledgerNeedsUpgrade: the first non-blank line decides
RECURSIVE ledgerNeedsUpgrade(_)
ledgerNeedsUpgrade(lines) ==
    IF lines = <<>> THEN FALSE
    ELSE IF Head(lines).kind = "blank" THEN ledgerNeedsUpgrade(Tail(lines))
    ELSE ~ ( /\ "schema_version" \in DOMAIN Head(lines).obj
             /\ Head(lines).obj["schema_version"] = ledgerSchemaVersion )

\* one record through map[string]interface{} with schema_version set;
\* upgradePayloadTyped is the round trip through the ledgerEntry struct, which
\* keeps only the keys the struct names
upgradePayloadTyped(obj) ==
    marshalEntry([unmarshalEntry(obj) EXCEPT !.SchemaVersion = ledgerSchemaVersion])
upgradePayload(obj) ==
    [k \in DOMAIN obj \cup {"schema_version"} |->
        IF k = "schema_version" THEN ledgerSchemaVersion ELSE obj[k]]

\* the loop of upgradeLedgerFile: blank lines dropped, every record re-encoded
RECURSIVE upgradedLines(_)
upgradedLines(lines) ==
    IF lines = <<>> THEN <<>>
    ELSE IF Head(lines).kind = "blank" THEN upgradedLines(Tail(lines))
    ELSE <<JsonLine(upgradePayload(Head(lines).obj))>> \o upgradedLines(Tail(lines))

(***************************************************************************)
(* The steps of appendLedgerEntry that touch shared state.  store holds    *)
(* the directory entries of the ledger path and of path+".upgrade" (an     *)
(* inode number, 0 when the name does not exist), the inodes' contents,    *)
(* and the process-wide ledgerUpgradeOnce flag of the path.  A caller's    *)
(* record holds its position, its entry, the upgraded content it computed, *)
(* its open descriptor and the error it returned.                          *)
(***************************************************************************)
Writers == {1, 2}

NewStore(exists, lines, once) ==
    [ledger |-> IF exists THEN 1 ELSE 0, temp |-> 0,
     inodes |-> IF exists THEN <<lines>> ELSE <<>>, once |-> once]

\* the content of the ledger path, empty when there is no file
ledgerLines(s) == IF s.ledger = 0 THEN <<>> ELSE s.inodes[s.ledger]

NewCall(op, pc, entry) ==
    [op |-> op, pc |-> pc, entry |-> entry, data |-> <<>>, fd |-> 0,
     err |-> "", calls |-> 0]

StepResult(s, l) == [s |-> s, l |-> l]

\* where upgradeLedgerFile returns to
afterUpgrade(l) == IF l.op = "upgrade" THEN "returned" ELSE "store"

\* ensureLedgerSchema: ledgerUpgradeOnce.Load(path)
ensureLoad(s, l) ==
    StepResult(s, [l EXCEPT !.pc = IF s.once THEN "open" ELSE "needsUpgrade"])

\* ledgerNeedsUpgrade: Stat, then the scan of the opened file
needsUpgrade(s, l) ==
    IF s.ledger = 0
    THEN StepResult([s EXCEPT !.once = TRUE], [l EXCEPT !.pc = "store"])
    ELSE IF ledgerNeedsUpgrade(ledgerLines(s))
         THEN StepResult(s, [l EXCEPT !.pc = "readFile"])
         ELSE StepResult(s, [l EXCEPT !.pc = "store"])

\* upgradeLedgerFile: os.ReadFile and the re-encoding of what it read
upgradeRead(s, l) ==
    IF s.ledger = 0 THEN StepResult(s, [l EXCEPT !.pc = afterUpgrade(l)])
    ELSE StepResult(s, [l EXCEPT !.data = upgradedLines(ledgerLines(s)),
                                 !.pc = "writeTemp"])

\* os.WriteFile(temp): create the file, or truncate the one that is there
upgradeWriteTemp(s, l) ==
    IF s.temp = 0
    THEN StepResult([s EXCEPT !.inodes = Append(s.inodes, l.data),
                              !.temp = Len(s.inodes) + 1],
                    [l EXCEPT !.pc = "rename"])
    ELSE StepResult([s EXCEPT !.inodes[s.temp] = l.data],
                    [l EXCEPT !.pc = "rename"])

\* os.Rename(temp, path): fails when temp is gone
upgradeRename(s, l) ==
    IF s.temp = 0
    THEN StepResult(s, [l EXCEPT !.err = "replace upgraded ledger", !.pc = "returned"])
    ELSE StepResult([s EXCEPT !.ledger = s.temp, !.temp = 0],
                    [l EXCEPT !.pc = afterUpgrade(l)])

\* ensureLedgerSchema: ledgerUpgradeOnce.Store(path)
ensureStore(s, l) ==
    StepResult([s EXCEPT !.once = TRUE], [l EXCEPT !.pc = "open"])

\* os.OpenFile(path, O_APPEND|O_CREATE|O_WRONLY)
appendOpen(s, l) ==
    IF s.ledger = 0
    THEN StepResult([s EXCEPT !.inodes = Append(s.inodes, <<>>),
                              !.ledger = Len(s.inodes) + 1],
                    [l EXCEPT !.fd = Len(s.inodes) + 1, !.pc = "write"])
    ELSE StepResult(s, [l EXCEPT !.fd = s.ledger, !.pc = "write"])

\* f.Write of the stamped, marshalled entry to the open descriptor
appendWrite(s, l) ==
    StepResult([s EXCEPT !.inodes[l.fd] =
                    writeRecord(s.inodes[l.fd], marshalEntry(stampEntry(l.entry)))],
               [l EXCEPT !.pc = "returned"])

ledgerStep(s, l) ==
    CASE l.pc = "ensure" -> ensureLoad(s, l)
      [] l.pc = "needsUpgrade" -> needsUpgrade(s, l)
      [] l.pc = "readFile" -> upgradeRead(s, l)
      [] l.pc = "writeTemp" -> upgradeWriteTemp(s, l)
      [] l.pc = "rename" -> upgradeRename(s, l)
      [] l.pc = "store" -> ensureStore(s, l)
      [] l.pc = "open" -> appendOpen(s, l)
      [] l.pc = "write" -> appendWrite(s, l)

\* a call run from its first step to its return with no other caller about
RECURSIVE runLedger(_, _)
runLedger(s, l) ==
    IF l.pc = "returned" THEN StepResult(s, l) ELSE runLedger(ledgerStep(s, l).s, ledgerStep(s, l).l)

appendLedgerEntry(s, entry) == runLedger(s, NewCall("append", "ensure", entry))

(***************************************************************************)
(* Ledgers and entries of the model.                                       *)
(***************************************************************************)
SessionA == <<"s","1">>
SessionB == <<"s","2">>
EpicA == <<"e","p","-","a">>

EntryDone ==
    [ZeroEntry EXCEPT !.SessionID = SessionA, !.EpicID = EpicA,
                      !.BeadID = <<"e","p","-","a",".","1">>, !.Status = StatusSuccess,
                      !.CommitSummary = <<SP,"m",SP>>, !.CommitDetails = <<"d",LF>>,
                      !.StartedAt = 1, !.CompletedAt = 3, !.DurationMs = 9]
EntryHelp ==
    [ZeroEntry EXCEPT !.SessionID = SessionB, !.EpicID = EpicA,
                      !.Status = StatusFailure, !.CommitSummary = <<"m">>,
                      !.CommitDetails = <<"d">>, !.Escalation = <<"r",SP>>,
                      !.StartedAt = 5, !.CompletedAt = 4, !.ExitCode = 1,
                      !.Redacted = TRUE]
SampleEntries == {EntryDone, EntryHelp, ZeroEntry}

LegacyBare == [session_id |-> <<"l">>]
LegacyV1 ==
    [schema_version |-> <<"o","b","i",".","v","1">>, session_id |-> <<"o">>,
     status |-> StatusSuccess, exit_code |-> 1, host |-> <<"h">>]
CurrentRecord == marshalEntry(stampEntry(EntryDone))

LineAlphabet ==
    {BlankLine, JsonLine(LegacyBare), JsonLine(LegacyV1), JsonLine(CurrentRecord)}

LedgerFiles == UNION {[1..n -> LineAlphabet] : n \in 0..MaxLedgerLines}

\* the flag is set only for a path whose file was seen not to need the upgrade
InitialStores ==
    {NewStore(FALSE, <<>>, FALSE)}
    \cup {NewStore(TRUE, f, FALSE) : f \in LedgerFiles}
    \cup {NewStore(TRUE, f, TRUE) : f \in {g \in LedgerFiles : ~ledgerNeedsUpgrade(g)}}

LedgerIdle ==
    /\ store = NewStore(FALSE, <<>>, FALSE)
    /\ writer = [w \in Writers |-> NewCall("none", "off", ZeroEntry)]
    /\ lMode = "none" /\ lInitial = store /\ lSnap = <<>>

\* every writer is about to call appendLedgerEntry(path, entry) on one path
LedgerInit(mode) ==
    /\ store \in InitialStores
    /\ writer \in {[w \in Writers |-> NewCall("append", "ensure", es[w])] :
                        es \in [Writers -> SampleEntries]}
    /\ lMode = mode /\ lInitial = store /\ lSnap = <<>>

\* one caller is about to call upgradeLedgerFile(path) on a legacy file
UpgradeInit ==
    /\ store \in {NewStore(TRUE, f, FALSE) :
                        f \in {g \in LedgerFiles : ledgerNeedsUpgrade(g)}}
    /\ writer = [w \in Writers |->
                    IF w = 1 THEN NewCall("upgrade", "readFile", ZeroEntry)
                    ELSE NewCall("none", "off", ZeroEntry)]
    /\ lMode = "upgrade" /\ lInitial = store /\ lSnap = <<>>

LedgerApply(w, r) ==
    /\ store' = r.s
    /\ writer' = [writer EXCEPT ![w] = r.l]
    /\ UNCHANGED <<lMode, lInitial, lSnap>>
    /\ UNCHANGED nonLedgerVars

\* a sequential caller makes its call when the callers before it returned
EnsureLoad(w) ==
    /\ writer[w].pc = "ensure"
    /\ lMode = "sequential" => \A v \in Writers : v < w => writer[v].pc = "returned"
    /\ LedgerApply(w, ensureLoad(store, writer[w]))

NeedsUpgrade(w) ==
    /\ writer[w].pc = "needsUpgrade"
    /\ LedgerApply(w, needsUpgrade(store, writer[w]))

UpgradeRead(w) ==
    /\ writer[w].pc = "readFile"
    /\ LedgerApply(w, upgradeRead(store, writer[w]))

UpgradeWriteTemp(w) ==
    /\ writer[w].pc = "writeTemp"
    /\ LedgerApply(w, upgradeWriteTemp(store, writer[w]))

UpgradeRename(w) ==
    /\ writer[w].pc = "rename"
    /\ LedgerApply(w, upgradeRename(store, writer[w]))

EnsureStore(w) ==
    /\ writer[w].pc = "store"
    /\ LedgerApply(w, ensureStore(store, writer[w]))

AppendOpen(w) ==
    /\ writer[w].pc = "open"
    /\ LedgerApply(w, appendOpen(store, writer[w]))

AppendWrite(w) ==
    /\ writer[w].pc = "write"
    /\ LedgerApply(w, appendWrite(store, writer[w]))

\* upgradeLedgerFile returned: the file it left is recorded, and the caller
\* calls it once more
UpgradeCallAgain(w) ==
    /\ writer[w].op = "upgrade" /\ writer[w].pc = "returned"
    /\ lSnap' = Append(lSnap, ledgerLines(store))
    /\ writer' = [writer EXCEPT ![w].calls = @ + 1,
                                ![w].pc = IF writer[w].calls = 0 THEN "readFile"
                                          ELSE "finished"]
    /\ UNCHANGED <<store, lMode, lInitial>>
    /\ UNCHANGED nonLedgerVars

(***************************************************************************)
(* The legacy footer (footer.Parse) and the cross-check of executeSession. *)
(***************************************************************************)
StatusPrefix == <<"S","T","A","T","U","S",":">>
CommitPrefix == <<"C","O","M","M","I","T","_","M","S","G",":">>
EscalationPrefix == <<"E","S","C","A","L","A","T","I","O","N",":">>

EmptyFooter == [Status |-> <<>>, CommitMsg |-> <<>>, Escalation |-> <<>>]

TrimPrefix(s, p) == IF HasPrefix(s, p) THEN Drop(s, Len(p)) ELSE s

\* the loop of footer.Parse over the lines of the output
RECURSIVE footerScan(_, _, _)
footerScan(lines, res, collectingCommit) ==
    IF lines = <<>> THEN res
    ELSE
    LET trimmed == TrimSpace(Head(lines)) IN
    IF HasPrefix(trimmed, StatusPrefix) THEN
        footerScan(Tail(lines),
                   [res EXCEPT !.Status = TrimSpace(TrimPrefix(trimmed, StatusPrefix))],
                   FALSE)
    ELSE IF HasPrefix(trimmed, CommitPrefix) THEN
        footerScan(Tail(lines),
                   [res EXCEPT !.CommitMsg = TrimSpace(TrimPrefix(trimmed, CommitPrefix))],
                   TRUE)
    ELSE IF HasPrefix(trimmed, EscalationPrefix) THEN
        footerScan(Tail(lines),
                   [res EXCEPT !.Escalation =
                        TrimSpace(TrimPrefix(trimmed, EscalationPrefix))],
                   FALSE)
    ELSE IF collectingCommit THEN
        footerScan(Tail(lines),
                   [res EXCEPT !.CommitMsg =
                        (IF res.CommitMsg # <<>> THEN res.CommitMsg \o <<LF>> ELSE <<>>)
                        \o trimmed],
                   TRUE)
    ELSE footerScan(Tail(lines), res, collectingCommit)

footerParse(output) ==
    Only({IF res.Status = <<>> THEN [res |-> EmptyFooter, err |-> "missing STATUS: line"]
          ELSE IF res.CommitMsg = <<>>
               THEN [res |-> EmptyFooter, err |-> "missing COMMIT_MSG: line"]
          ELSE IF res.Status = StatusFailure /\ res.Escalation = <<>>
               THEN [res |-> EmptyFooter,
                     err |-> "status=needs_help requires ESCALATION: line"]
          ELSE [res |-> res, err |-> "ok"] :
          res \in {footerScan(Split(output, LF), EmptyFooter, FALSE)}})

\* app.parseFencedReport: Feed the whole output, then Finalize
parseFencedReport(sessionID, output) ==
    Only({IF fed.err # "ok" THEN [res |-> EmptyResult, err |-> fed.err]
          ELSE IF fed.done THEN [res |-> fed.res, err |-> "ok"]
          ELSE Only({IF fin.err # "ok" THEN [res |-> EmptyResult, err |-> fin.err]
                     ELSE IF ~fin.done
                          THEN [res |-> EmptyResult, err |-> "fenced report incomplete"]
                     ELSE [res |-> fin.res, err |-> "ok"] :
                     fin \in {Finalize(fed.p)}}) :
          fed \in {Feed(NewParser(sessionID), output)}})

RECURSIVE trimRightEach(_)
trimRightEach(lines) ==
    IF lines = <<>> THEN <<>>
    ELSE <<TrimRight(Head(lines), {SP, TAB})>> \o trimRightEach(Tail(lines))

normalizeMultiline(s) ==
    IF TrimSpace(s) = <<>> THEN <<>>
    ELSE Join(trimRightEach(Split(TrimSpace(s), LF)), LF)

normalizeWhitespace(s) == TrimSpace(s)

\* the three comparisons of executeSession, in order; "" when all agree;
\* crossCheckStatusOnly is the first comparison alone
crossCheckStatusOnly(fencedRes, footerRes) ==
    IF ~EqualFold(fencedRes.Status, footerRes.Status)
    THEN "fenced report status does not match legacy footer"
    ELSE ""
crossCheck(fencedRes, footerRes) ==
    IF ~EqualFold(fencedRes.Status, footerRes.Status)
    THEN "fenced report status does not match legacy footer"
    ELSE IF normalizeMultiline(fencedRes.Details) # normalizeMultiline(footerRes.CommitMsg)
    THEN "fenced report details do not match legacy footer commit body"
    ELSE IF normalizeWhitespace(fencedRes.Escalation)
                # normalizeWhitespace(footerRes.Escalation)
    THEN "fenced report escalation does not match legacy footer"
    ELSE ""

(***************************************************************************)
(* detectBeadID: the leftmost match of <root>-[a-z0-9][a-z0-9.-]* in the   *)
(* lower-cased texts, root being the epic id up to its last hyphen.        *)
(***************************************************************************)
DigitChars == <<"0","1","2","3","4","5","6","7","8","9">>
BeadHead == {LowerLetters[i] : i \in 1..26} \cup {DigitChars[i] : i \in 1..10}
BeadTail == BeadHead \cup {".", "-"}

\* the greedy tail of a match that ends at offset j
RECURSIVE beadEnd(_, _)
beadEnd(text, j) ==
    IF j + 1 <= Len(text) /\ text[j + 1] \in BeadTail THEN beadEnd(text, j + 1) ELSE j

\* pattern.FindString(text): the leftmost match at or after offset from,
\* taken greedily
RECURSIVE findBead(_, _, _)
findBead(text, root, from) ==
    LET n == Len(root)
        i == IndexIn(text, root \o <<"-">>, from, Len(text) - n - 1) IN
    IF i = -1 THEN <<>>
    ELSE IF text[i + n + 2] \in BeadHead
         THEN SubSeq(text, i + 1, beadEnd(text, i + n + 2))
    ELSE findBead(text, root, i + 1)

RECURSIVE firstBead(_, _)
firstBead(texts, root) ==
    IF texts = <<>> THEN <<>>
    ELSE IF Head(texts) # <<>> /\ findBead(ToLower(Head(texts)), root, 0) # <<>>
         THEN findBead(ToLower(Head(texts)), root, 0)
    ELSE firstBead(Tail(texts), root)

detectBeadID(plan, texts) ==
    LET whole == ToLower(TrimSpace(plan.EpicID))
        idx == LastIndex(whole, <<"-">>)
        root == IF idx > 0 THEN Take(whole, idx) ELSE whole IN
    IF whole = <<>> THEN <<>> ELSE firstBead(texts, root)

(***************************************************************************)
(* executeSession, from the launch of the session to its return, and the   *)
(* epic loop around it.  The session itself is the runner's business: the  *)
(* orchestrator sees what Wait returns.                                    *)
(***************************************************************************)
NoOutcome == [Status |-> <<>>, BeadID |-> <<>>]

SessionIDOf(n) == <<"s", DigitChars[n + 2]>>

\* what executeSession returns, the ledger it leaves, and the two parses
Finished(s, err, outcome, fenced, footer) ==
    [s |-> s, err |-> err, outcome |-> outcome, fenced |-> fenced, footer |-> footer]

NotParsed == [res |-> EmptyResult, err |-> "none"]
NoFooter == [res |-> EmptyFooter, err |-> "none"]

\* the ledgerEntry literal of executeSession
sessionEntry(plan, sessionID, in, fencedRes, beadID) ==
    LET summary == redactText(fencedRes.CommitMsg, in.secrets)
        details == redactText(fencedRes.Details, in.secrets)
        escalation == redactText(TrimSpace(fencedRes.Escalation), in.secrets) IN
    [ZeroEntry EXCEPT !.SessionID = sessionID, !.EpicID = plan.EpicID,
                      !.BeadID = beadID, !.Status = fencedRes.Status,
                      !.CommitSummary = summary.text,
                      !.CommitDetails = details.text,
                      !.Escalation = escalation.text,
                      !.StartedAt = in.startedAt, !.CompletedAt = in.completedAt,
                      !.ExitCode = in.exitCode,
                      !.Redacted = summary.redacted \/ details.redacted
                                        \/ escalation.redacted]

\* executeSession once both reports agree: the bead id, the ledger entry,
\* and the status and exit code checks that follow the append
recordOutcome(plan, sessionID, in, s, fenced, footer) ==
    Only({Only({IF appended.l.err # ""
                THEN Finished(appended.s, appended.l.err, NoOutcome, fenced, footer)
                ELSE IF footer.res.Status = StatusFailure
                THEN Finished(appended.s, "Codex requested escalation; stopping.",
                              NoOutcome, fenced, footer)
                ELSE IF in.exitCode # 0
                THEN Finished(appended.s, "codex exited with non-zero status",
                              NoOutcome, fenced, footer)
                ELSE Finished(appended.s, "",
                              [Status |-> fenced.res.Status, BeadID |-> beadID],
                              fenced, footer) :
                appended \in {appendLedgerEntry(s, sessionEntry(plan, sessionID, in,
                                                                fenced.res, beadID))}}) :
          beadID \in {IF plan.BeadIDOverride # <<>> THEN plan.BeadIDOverride
                      ELSE detectBeadID(plan, <<in.output, fenced.res.Details,
                                                fenced.res.CommitMsg,
                                                footer.res.CommitMsg>>)}})

\* the cross-check of the fenced report against the footer
checkedSession(plan, sessionID, in, s, fenced) ==
    Only({IF footer.err # "ok"
          THEN Finished(s, "parse footer", NoOutcome, fenced, footer)
          ELSE Only({IF mismatch # ""
                     THEN Finished(s, mismatch, NoOutcome, fenced, footer)
                     ELSE recordOutcome(plan, sessionID, in, s, fenced, footer) :
                     mismatch \in {crossCheck(fenced.res, footer.res)}}) :
          footer \in {footerParse(in.output)}})

executeSession(plan, sessionID, in, s) ==
    IF in.pre = "cancelled" THEN Finished(s, "", NoOutcome, NotParsed, NoFooter)
    ELSE IF in.pre = "launch error"
         THEN Finished(s, "launch error", NoOutcome, NotParsed, NoFooter)
    ELSE IF in.waitErr THEN Finished(s, "wait error", NoOutcome, NotParsed, NoFooter)
    ELSE Only({IF fenced.err # "ok"
               THEN Finished(s, "parse fenced report", NoOutcome, fenced, NoFooter)
               ELSE checkedSession(plan, sessionID, in, s, fenced) :
               fenced \in {parseFencedReport(sessionID, in.output)}})

\* the summaryEntry loadSummaryEntries keeps of a success entry
summaryEntryOf(entry) ==
    LET summary == TrimSpace(entry.CommitSummary)
        details == TrimSpace(entry.CommitDetails) IN
    [BeadID |-> TrimSpace(entry.BeadID), CommitSummary |-> summary,
     CommitDetails |-> IF details = <<>> THEN summary ELSE details,
     CompletedAt |-> entry.CompletedAt]

\* the loop of loadSummaryEntries: the success entries of the epic that have
\* a text; an entry of status needs_help is an error
RECURSIVE summaryFilter(_)
summaryFilter(entries) ==
    IF entries = <<>> THEN [entries |-> <<>>, err |-> ""]
    ELSE
    LET entry == Head(entries)
        status == ToLower(TrimSpace(entry.Status)) IN
    IF status = StatusFailure
    THEN [entries |-> <<>>, err |-> "resolve blockers before running the omnibus summary"]
    ELSE Only({IF rest.err # "" THEN rest
               ELSE IF status = StatusSuccess
                       /\ (TrimSpace(entry.CommitSummary) # <<>>
                           \/ TrimSpace(entry.CommitDetails) # <<>>)
               THEN [entries |-> <<summaryEntryOf(entry)>> \o rest.entries, err |-> ""]
               ELSE rest :
               rest \in {summaryFilter(Tail(entries))}})

\* the less function loadSummaryEntries gives to sort.SliceStable; i and j
\* are positions in the slice as it is when the function is called
summaryLessByIndex(filtered, i, j) == i < j
summaryLess(filtered, i, j) ==
    IF filtered[i].CompletedAt = filtered[j].CompletedAt THEN i < j
    ELSE filtered[i].CompletedAt < filtered[j].CompletedAt

\* sort.SliceStable on a slice of at most 20 elements is one insertion sort:
\* for i := a + 1; i < b; i++ { for j := i; j > a && less(j, j-1); j-- { swap } }
RECURSIVE insertDown(_, _)
insertDown(filtered, j) ==
    IF j > 1 /\ summaryLess(filtered, j, j - 1)
    THEN insertDown([filtered EXCEPT ![j] = filtered[j - 1], ![j - 1] = filtered[j]],
                    j - 1)
    ELSE filtered
RECURSIVE sliceStable(_, _)
sliceStable(filtered, i) ==
    IF i > Len(filtered) THEN filtered
    ELSE sliceStable(insertDown(filtered, i), i + 1)

\* the end of loadSummaryEntries: the sort, the total, the last maxCommits
sortAndTruncate(filtered, maxCommits) ==
    LET sorted == sliceStable(filtered, 2)
        total == Len(sorted) IN
    [entries |-> IF maxCommits > 0 /\ total > maxCommits
                 THEN SubSeq(sorted, total - maxCommits + 1, total) ELSE sorted,
     total |-> total, err |-> ""]

\* loadSummaryEntriesLenient passes over the needs_help entries
loadSummaryEntriesLenient(s, epicID, maxCommits) ==
    IF s.ledger = 0
    THEN [entries |-> <<>>, total |-> 0,
          err |-> "results log not found; cannot produce omnibus summary"]
    ELSE LET kept == summaryFilter(SelectSeq(ledgerEntriesForEpic(ledgerLines(s), epicID),
                                 LAMBDA e : ToLower(TrimSpace(e.Status)) # StatusFailure)) IN
         IF kept.err # "" THEN [entries |-> <<>>, total |-> 0, err |-> kept.err]
         ELSE sortAndTruncate(kept.entries, maxCommits)
loadSummaryEntries(s, epicID, maxCommits) ==
    IF s.ledger = 0
    THEN [entries |-> <<>>, total |-> 0,
          err |-> "results log not found; cannot produce omnibus summary"]
    ELSE LET kept == summaryFilter(ledgerEntriesForEpic(ledgerLines(s), epicID)) IN
         IF kept.err # "" THEN [entries |-> <<>>, total |-> 0, err |-> kept.err]
         ELSE sortAndTruncate(kept.entries, maxCommits)

\* chunkSummaryEntries: the chunks that follow the first done ones
DefaultSummaryChunkSize == 5
RECURSIVE chunkLoop(_, _, _)
chunkLoop(entries, size, done) ==
    IF entries = <<>> THEN <<>>
    ELSE LET end == IF size > Len(entries) THEN Len(entries) ELSE size IN
         <<[Index |-> done + 1, Entries |-> SubSeq(entries, 1, end)]>>
         \o chunkLoop(SubSeq(entries, end + 1, Len(entries)), size, done + 1)
chunkSummaryEntries(entries, chunkSize) ==
    chunkLoop(entries, IF chunkSize <= 0 THEN DefaultSummaryChunkSize ELSE chunkSize, 0)

(***************************************************************************)
(* What a session can hand to executeSession: the agent's output is a      *)
(* first line, a fenced report and a footer, each of which may be sound,   *)
(* malformed, or at odds with the other.                                   *)
(***************************************************************************)
WorkPlan == [EpicID |-> EpicA, BeadIDOverride |-> <<>>, ResumeEnabled |-> FALSE]
\* the plan of the loose-issues target
IssuesID == <<"i","s","s","u","e","s">>
IssuesPlan == [WorkPlan EXCEPT !.EpicID = IssuesID]
SummaryPlan ==
    [WorkPlan EXCEPT !.BeadIDOverride =
        EpicA \o <<".","o","m","n","i","b","u","s","-","s","u","m","m","a","r","y">>]

StatusBogus == <<"o","k">>
BeadLine == <<"e","p","-","a",".","1">>
BeadLineTwo == <<"e","p","-","a",".","2">>

Upper(s) ==
    [i \in 1..Len(s) |->
        IF \E j \in 1..26 : LowerLetters[j] = s[i]
        THEN UpperLetters[CHOOSE j \in 1..26 : LowerLetters[j] = s[i]]
        ELSE s[i]]

\* a details block whose first line is indented by three spaces
DetailsIndented == DetailsBlockHead \o <<LF, SP, SP, SP, "x">>

OutputText(sessionID, mention, fStatus, details, closed, footStatus, footBody, footEsc) ==
    (IF mention # <<>> THEN mention ELSE NoiseLine) \o <<LF>>
    \o FencePrefix \o sessionID \o <<LF>>
    \o StatusField \o fStatus \o <<LF>>
    \o CommitField \o <<LF>>
    \o details \o <<LF>>
    \o (IF fStatus = StatusFailure THEN EscalationField \o <<LF>> ELSE <<>>)
    \o (IF closed THEN FenceClose \o <<LF>> ELSE <<>>)
    \o (IF footStatus # <<>> THEN StatusPrefix \o <<SP>> \o footStatus \o <<LF>> ELSE <<>>)
    \o CommitPrefix \o <<SP>> \o footBody \o <<LF>>
    \o (IF footEsc # <<>> THEN EscalationPrefix \o <<SP>> \o footEsc \o <<LF>> ELSE <<>>)

\* a sound fenced report with every footer, a malformed fenced report (no
\* closing fence, an unknown status) with a sound footer, and a details block
\* with a sound footer
Outputs(sessionID, mention) ==
    {OutputText(sessionID, mention, fStatus, DetailsInline, TRUE,
                footStatus, footBody, footEsc) :
        fStatus \in {StatusSuccess, StatusFailure},
        footStatus \in {StatusSuccess, StatusFailure, Upper(StatusSuccess),
                        Upper(StatusFailure), <<>>},
        footBody \in {<<"x",SP,SP>>, <<"z">>, <<>>},
        footEsc \in {<<>>, <<"e">>, <<"f">>}}
    \cup {OutputText(sessionID, mention, StatusSuccess, DetailsInline, FALSE,
                     StatusSuccess, <<"x">>, <<>>),
          OutputText(sessionID, mention, StatusBogus, DetailsInline, TRUE,
                     StatusBogus, <<"x">>, <<>>),
          OutputText(sessionID, mention, StatusSuccess, DetailsIndented, TRUE,
                     StatusSuccess, <<"x">>, <<>>)}

SessionInput(pre, waitFailed, output, exitCode, secrets) ==
    [pre |-> pre, waitErr |-> waitFailed, output |-> output, exitCode |-> exitCode,
     startedAt |-> 1, completedAt |-> 3, secrets |-> secrets]

\* the two reports of a session in agreement, with either status
SoundOutputs(sessionID, mention) ==
    {OutputText(sessionID, mention, fStatus, DetailsInline, TRUE, fStatus, <<"x">>,
                IF fStatus = StatusFailure THEN <<"e">> ELSE <<>>) :
        fStatus \in {StatusSuccess, StatusFailure}}

\* besides a child that exits with 0 and names a bead, with no secret
\* configured: no bead named and a secret configured, or an exit with 1
Circumstances ==
    {[mention |-> <<>>, exitCode |-> 0, secrets |-> <<<<"e">>>>],
     [mention |-> BeadLine, exitCode |-> 1, secrets |-> <<>>]}

\* sessions whose reports agree, naming one bead, the other, or none
TrackerInputs(sessionID) ==
    {SessionInput("cancelled", FALSE, <<>>, 0, <<>>)}
    \cup {SessionInput("ok", FALSE, output, 0, <<>>) :
            output \in SoundOutputs(sessionID, BeadLine)
                       \cup {OutputText(sessionID, mention, StatusSuccess, DetailsInline,
                                        TRUE, StatusSuccess, <<"x">>, <<>>) :
                                mention \in {<<>>, BeadLineTwo}}}

\* a session cancelled at the prompt, a launch that fails, a Wait that
\* fails, every output of a plain session, and the sound outputs in the
\* other circumstances
SessionInputs(sessionID) ==
    {SessionInput("cancelled", FALSE, <<>>, 0, <<>>),
     SessionInput("launch error", FALSE, <<>>, 0, <<>>),
     SessionInput("ok", TRUE, <<>>, 1, <<>>)}
    \cup {SessionInput("ok", FALSE, output, 0, <<>>) : output \in Outputs(sessionID, BeadLine)}
    \cup UNION {{SessionInput("ok", FALSE, output, c.exitCode, c.secrets) :
                    output \in SoundOutputs(sessionID, c.mention)} : c \in Circumstances}

(***************************************************************************)
(* --resume: the completed beads of an epic, read from the ledger.         *)
(***************************************************************************)
\* the key of the seen map; beadKeyExact is the key without case folding
beadKeyExact(bead) == bead
beadKey(bead) == ToLower(bead)

\* the loop of completedBeadsFromLedger over the entries of the epic
RECURSIVE completedScan(_, _, _)
completedScan(entries, completed, seen) ==
    IF entries = <<>> THEN [beads |-> completed, err |-> ""]
    ELSE Only({
        CASE status = <<>> ->
                [beads |-> <<>>, err |-> "missing a status; cannot resume safely"]
          [] status = StatusSuccess ->
                IF bead = <<>>
                THEN [beads |-> <<>>, err |-> "missing bead_id"]
                ELSE IF beadKey(bead) \in seen
                THEN completedScan(Tail(entries), completed, seen)
                ELSE completedScan(Tail(entries), Append(completed, bead),
                                   seen \cup {beadKey(bead)})
          [] status = StatusFailure ->
                [beads |-> <<>>, err |-> "resolve it before resuming"]
          [] OTHER ->
                [beads |-> <<>>, err |-> "unknown status"] :
        status \in {ToLower(TrimSpace(Head(entries).Status))},
        bead \in {TrimSpace(Head(entries).BeadID)}})

completedBeadsFromLedger(file, epicID) ==
    IF ~file.exists
    THEN [beads |-> <<>>, err |-> "results log not found; run at least once before using --resume"]
    ELSE completedScan(ledgerEntriesForEpic(file.lines, epicID), <<>>, {})

\* records of two epics, one of them under two spellings, as obi wrote them
\* or as a legacy ledger holds them
EpicB == <<"e","p","-","b">>
BeadOne == <<"e","p","-","1">>
BeadTwo == <<"e","p","-","2">>
ResumeEntry(epic, status, bead) ==
    [ZeroEntry EXCEPT !.SessionID = SessionA, !.EpicID = epic, !.Status = status,
                      !.BeadID = bead, !.CommitSummary = <<"m">>]
ResumeEntries ==
    {ResumeEntry(EpicA, StatusSuccess, BeadOne),
     ResumeEntry(Upper(EpicA), StatusSuccess, Upper(BeadOne)),
     ResumeEntry(EpicA, StatusSuccess, BeadTwo),
     ResumeEntry(EpicA, StatusSuccess, <<>>),
     ResumeEntry(EpicA, StatusFailure, <<>>),
     ResumeEntry(EpicA, <<>>, BeadOne),
     ResumeEntry(EpicA, <<"o","k">>, BeadOne),
     ResumeEntry(EpicB, StatusFailure, BeadOne),
     ResumeEntry(EpicB, StatusSuccess, <<"e","p","-","9">>)}
ResumeLines == {JsonLine(marshalEntry(stampEntry(e))) : e \in ResumeEntries}
ResumeFiles ==
    {[exists |-> FALSE, lines |-> <<>>]}
    \cup {[exists |-> TRUE, lines |-> l] :
            l \in UNION {[1..n -> ResumeLines] : n \in 0..MaxResumeRecords}}

SummaryLoadIdle ==
    /\ smStore = NewStore(FALSE, <<>>, FALSE) /\ smMax = 0 /\ smChunk = 0
    /\ smLoaded = [entries |-> <<>>, total |-> 0, err |-> ""]
    /\ smChunks = <<>> /\ smPc = "idle"

LoadIdle ==
    /\ cbFile = [exists |-> FALSE, lines |-> <<>>] /\ cbEpic = <<>>
    /\ cbResult = [beads |-> <<>>, err |-> ""] /\ cbPc = "idle"
    /\ SummaryLoadIdle

LoadInit ==
    /\ cbFile \in ResumeFiles /\ cbEpic \in {EpicA, Upper(EpicA)}
    /\ cbResult = [beads |-> <<>>, err |-> ""] /\ cbPc = "start"
    /\ SummaryLoadIdle

LoadCompleted ==
    /\ cbPc = "start"
    /\ cbResult' = completedBeadsFromLedger(cbFile, cbEpic)
    /\ cbPc' = "returned"
    /\ UNCHANGED <<cbFile, cbEpic>>
    /\ UNCHANGED <<smStore, smMax, smChunk, smLoaded, smChunks, smPc>>
    /\ UNCHANGED nonLoadVars

(***************************************************************************)
(* maybeRunSummarizer up to the plan of the summary session: the entries   *)
(* loaded from the ledger and their chunks.                                *)
(***************************************************************************)
SummaryRecord(status, bead, at, summary) ==
    [ZeroEntry EXCEPT !.SessionID = SessionA, !.EpicID = EpicA, !.Status = status,
                      !.BeadID = bead, !.CommitSummary = summary, !.CompletedAt = at]
SummaryRecords ==
    {SummaryRecord(StatusSuccess, BeadOne, 2, <<"m">>),
     SummaryRecord(StatusSuccess, BeadTwo, 1, <<"m">>),
     SummaryRecord(Upper(StatusSuccess), <<"e","p","-","3">>, 2, <<"m">>),
     SummaryRecord(StatusSuccess, <<"e","p","-","4">>, 3, <<SP>>),
     SummaryRecord(StatusFailure, BeadOne, 3, <<"m">>),
     SummaryRecord(<<>>, BeadOne, 1, <<"m">>),
     [SummaryRecord(StatusSuccess, BeadOne, 1, <<"m">>) EXCEPT !.EpicID = EpicB]}

SummaryLoadInit ==
    /\ \E n \in 0..MaxSummaryRecords : \E records \in [1..n -> SummaryRecords] :
            smStore = NewStore(TRUE, [i \in 1..n |-> JsonLine(marshalEntry(records[i]))],
                               FALSE)
    /\ smMax \in 1..MaxSummaryCommits
    /\ smChunk \in 0..MaxSummaryCommits
    /\ smLoaded = [entries |-> <<>>, total |-> 0, err |-> ""]
    /\ smChunks = <<>> /\ smPc = "start"
    /\ cbFile = [exists |-> FALSE, lines |-> <<>>] /\ cbEpic = <<>>
    /\ cbResult = [beads |-> <<>>, err |-> ""] /\ cbPc = "idle"

\* entries, total, err := loadSummaryEntries(logPath, plan.EpicID, MaxCommits);
\* an error and an empty list end the summarizer
SummaryLoad ==
    /\ smPc = "start"
    /\ smLoaded' = loadSummaryEntries(smStore, EpicA, smMax)
    /\ smPc' = IF smLoaded'.err # "" \/ smLoaded'.entries = <<>> THEN "returned"
               ELSE "loaded"
    /\ UNCHANGED <<smStore, smMax, smChunk, smChunks>>
    /\ UNCHANGED <<cbFile, cbEpic, cbResult, cbPc>>
    /\ UNCHANGED nonLoadVars

\* chunks := chunkSummaryEntries(entries, summaryCfg.ChunkSize)
SummaryChunk ==
    /\ smPc = "loaded"
    /\ smChunks' = chunkSummaryEntries(smLoaded.entries, smChunk)
    /\ smPc' = "chunked"
    /\ UNCHANGED <<smStore, smMax, smChunk, smLoaded>>
    /\ UNCHANGED <<cbFile, cbEpic, cbResult, cbPc>>
    /\ UNCHANGED nonLoadVars

(***************************************************************************)
(* The plan's resume set: enableResume, the ready check, the prompt.       *)
(***************************************************************************)
isLoosePlan(plan) == plan.EpicID = <<>> \/ plan.EpicID = IssuesID

enableResume(plan, file) ==
    IF isLoosePlan(plan)
    THEN [plan |-> plan, beads |-> <<>>,
          err |-> "--resume requires targeting a specific epic"]
    ELSE Only({IF completed.err # ""
               THEN [plan |-> plan, beads |-> <<>>, err |-> completed.err]
               ELSE [plan |-> [plan EXCEPT !.ResumeEnabled = TRUE],
                     beads |-> completed.beads, err |-> ""] :
               completed \in {completedBeadsFromLedger(file, plan.EpicID)}})

\* sessionPlan.resumeSkipSet: nil for an empty list, else the normalized ids;
\* resumeSkipSetNil answers nil for every list
resumeSkipSetNil(beads) == [nil |-> TRUE, set |-> {}]
resumeSkipSet(beads) ==
    IF beads = <<>> THEN [nil |-> TRUE, set |-> {}]
    ELSE [nil |-> FALSE,
          set |-> {ToLower(TrimSpace(beads[i])) : i \in 1..Len(beads)} \ {<<>>}]

parentEpicID(issueID) ==
    IF Index(issueID, <<".">>) = -1 THEN <<>> ELSE Take(issueID, Index(issueID, <<".">>))

\* everyIssueBelongs is issueBelongsToEpic without the test of the parent
everyIssueBelongs(issueID, epicID) == ~(epicID = <<>> \/ epicID = IssuesID)
issueBelongsToEpic(issueID, epicID) ==
    IF epicID = <<>> \/ epicID = IssuesID THEN FALSE
    ELSE parentEpicID(issueID) = epicID

\* the loop of hasReadyIssueForPlan
RECURSIVE readyScan(_, _, _, _)
readyScan(plan, skip, issues, skippedMatches) ==
    IF issues = <<>>
    THEN IF plan.ResumeEnabled /\ ~skip.nil /\ skippedMatches > 0
         THEN [hasWork |-> FALSE,
               err |-> "resume requested but every ready bead is already logged as completed"]
         ELSE [hasWork |-> FALSE, err |-> ""]
    ELSE IF EqualFold(Head(issues).IssueType, <<"e","p","i","c">>)
    THEN readyScan(plan, skip, Tail(issues), skippedMatches)
    ELSE IF issueBelongsToEpic(Head(issues).ID, plan.EpicID)
    THEN IF ~skip.nil /\ ToLower(Head(issues).ID) \in skip.set
         THEN readyScan(plan, skip, Tail(issues), skippedMatches + 1)
         ELSE [hasWork |-> TRUE, err |-> ""]
    ELSE readyScan(plan, skip, Tail(issues), skippedMatches)

hasReadyIssueForPlan(plan, beads, readyIssues) ==
    IF isLoosePlan(plan) THEN [hasWork |-> TRUE, err |-> ""]
    ELSE readyScan(plan, resumeSkipSet(beads), readyIssues, 0)

\* fetched is what fetchReadyIssues returned
readyWorkAvailable(plan, beads, fetched) ==
    IF isLoosePlan(plan) THEN [hasWork |-> TRUE, err |-> ""]
    ELSE IF fetched.err # "" THEN [hasWork |-> FALSE, err |-> "preflight ready check"]
    ELSE hasReadyIssueForPlan(plan, beads, fetched.issues)

ensureReadyWork(plan, beads, fetched) ==
    Only({IF r.err # "" \/ r.hasWork \/ isLoosePlan(plan) THEN r
          ELSE [hasWork |-> FALSE, err |-> "no ready beads with prefix"] :
          r \in {readyWorkAvailable(plan, beads, fetched)}})

\* resumeInstructions: what the prompt says about the resume set: nothing,
\* the reminder line, or the list of ids
resumeInstructions(plan, beads) ==
    IF ~plan.ResumeEnabled THEN [head |-> "", lines |-> <<>>]
    ELSE IF beads = <<>>
    THEN [head |-> "Resume mode: continue working through ready beads for this epic.",
          lines |-> <<>>]
    ELSE [head |-> "Resume mode is active - skip the beads already finished during this run:",
          lines |-> [i \in 1..Len(beads) |-> <<"-", SP>> \o beads[i]]]

\* the entry of a session of an earlier run that asked for help, its epic
\* id written in upper case
EscalatedRecord ==
    marshalEntry(stampEntry([EntryHelp EXCEPT !.EpicID = Upper(EpicA)]))
OrchStores(scope) ==
    {NewStore(FALSE, <<>>, FALSE),
     NewStore(TRUE, <<JsonLine(LegacyBare)>>, FALSE),
     NewStore(TRUE, <<JsonLine(CurrentRecord)>>, FALSE)}
    \cup (IF scope = "reports"
          THEN {NewStore(TRUE, <<JsonLine(EscalatedRecord)>>, FALSE)} ELSE {})

\* the ledger file as a reader finds it
FileOf(s) == [exists |-> s.ledger # 0, lines |-> ledgerLines(s)]

\* what fetchReadyIssues returned last: nothing before the first fetch
NotFetched == [err |-> "", issues |-> <<>>]

\* the [summary] table of the configuration, and Config.SummaryConfigValue,
\* which fills an empty prompt and a max_commits <= 0 with the defaults
DefaultSummaryPrompt == <<"d">>
DefaultSummaryMaxCommits == 20
SummaryConfigs(scope) ==
    IF scope = "summary"
    THEN {[Prompt |-> <<>>, MaxCommits |-> 0], [Prompt |-> <<SP>>, MaxCommits |-> 1],
          [Prompt |-> <<"p">>, MaxCommits |-> 0], [Prompt |-> <<"p">>, MaxCommits |-> 1]}
    ELSE {[Prompt |-> <<"p">>, MaxCommits |-> 1]}
SummaryConfigValue(c) ==
    [Prompt |-> IF TrimSpace(c.Prompt) = <<>> THEN DefaultSummaryPrompt ELSE c.Prompt,
     MaxCommits |-> IF c.MaxCommits <= 0 THEN DefaultSummaryMaxCommits
                    ELSE c.MaxCommits]
summarizerDisabled(summaryCfg) ==
    summaryCfg.MaxCommits <= 0 \/ TrimSpace(summaryCfg.Prompt) = <<>>

OrchIdle ==
    /\ oPc = "idle" /\ sessionCount = 0 /\ oErr = "" /\ runs = <<>>
    /\ resumeCompletedBeads = <<>>
    /\ oPlan = WorkPlan /\ oReady = NotFetched /\ oScope = "none"
    /\ oSummary = [Prompt |-> <<>>, MaxCommits |-> 0]

\* runGo with the plan prepared: with --resume the ledger is read first.
\* Under the scope "reports" the run is one of an epic without --resume whose
\* sessions hand in every kind of report; under "tracker" the plan, --resume
\* and the ready lists vary and the sessions' reports agree; under "summary"
\* the [summary] table of the configuration varies; under "pipeline" the one
\* session of a loose-issues plan hands in what the stream writer buffered.
OrchInit(scope) ==
    /\ oScope = scope
    /\ oSummary \in SummaryConfigs(scope)
    /\ oPlan \in (IF scope = "tracker" THEN {WorkPlan, IssuesPlan}
                  ELSE IF scope = "pipeline" THEN {IssuesPlan} ELSE {WorkPlan})
    /\ oPc \in (IF scope = "tracker" THEN {"resume", "preflight"} ELSE {"preflight"})
    /\ oReady = NotFetched
    /\ sessionCount = 0 /\ oErr = "" /\ runs = <<>>
    /\ resumeCompletedBeads = <<>>
    /\ store \in OrchStores(scope)
    /\ writer = [w \in Writers |-> NewCall("none", "off", ZeroEntry)]
    /\ lMode = "orchestrator" /\ lInitial = store /\ lSnap = <<>>

\* one call of executeSession as the claims see it
RunRecord(kind, plan, in, before, r) ==
    [kind |-> kind, plan |-> plan, ready |-> oReady, resumeSet |-> resumeCompletedBeads,
     prompt |-> IF kind = "work" THEN resumeInstructions(plan, resumeCompletedBeads)
                ELSE resumeInstructions(SummaryPlan, <<>>),
     pre |-> in.pre, waitErr |-> in.waitErr, exitCode |-> in.exitCode,
     secrets |-> in.secrets, fenced |-> r.fenced, footer |-> r.footer,
     before |-> FileOf(before), after |-> FileOf(r.s), err |-> r.err,
     outcome |-> r.outcome]

orchFrame == <<writer, lMode, lInitial, lSnap>>

\* the ready issues the tracker may report, by scope
ReadyIssue(id, type) == [ID |-> id, IssueType |-> type]
TaskOne == ReadyIssue(BeadLine, <<"t","a","s","k">>)
TaskTwo == ReadyIssue(BeadLineTwo, <<"t","a","s","k">>)
TaskThree == ReadyIssue(<<"e","p","-","a",".","4">>, <<"t","a","s","k">>)
SubEpic == ReadyIssue(<<"e","p","-","a",".","3">>, <<"E","p","i","c">>)
TaskElsewhere == ReadyIssue(<<"e","p","-","b",".","1">>, <<"t","a","s","k">>)
TaskShouted == ReadyIssue(Upper(BeadLine), <<"t","a","s","k">>)
ReadyLists(scope) ==
    IF scope = "tracker"
    THEN {<<>>, <<TaskOne>>, <<SubEpic, TaskTwo>>, <<TaskOne, TaskTwo>>,
          <<SubEpic, TaskElsewhere, TaskShouted>>, <<TaskThree>>}
    ELSE {<<>>, <<TaskOne, TaskTwo>>}

\* --resume in runGo: enableResume, before the first ready check
EnableResume ==
    /\ oPc = "resume"
    /\ \E r \in {enableResume(oPlan, FileOf(store))} :
        /\ oErr' = r.err
        /\ oPlan' = r.plan
        /\ resumeCompletedBeads' = r.beads
        /\ oPc' = IF r.err # "" THEN "returned" ELSE "preflight"
    /\ UNCHANGED <<sessionCount, runs, store, oReady, oScope, oSummary>>
    /\ UNCHANGED orchFrame /\ UNCHANGED nonOrchVars

\* the head of the loop body: ensureReadyWork before the first session,
\* readyWorkAvailable before the others; the tracker answers with a list of
\* ready issues or fails
Preflight ==
    /\ oPc = "preflight"
    /\ \E fetched \in [err : {"bd ready"}, issues : {<<>>}]
                      \cup [err : {""}, issues : ReadyLists(oScope)] :
        \E r \in {IF sessionCount = 0
                  THEN ensureReadyWork(oPlan, resumeCompletedBeads, fetched)
                  ELSE readyWorkAvailable(oPlan, resumeCompletedBeads, fetched)} :
        /\ r.hasWork => sessionCount < MaxSessions
        /\ oReady' = IF isLoosePlan(oPlan) THEN oReady ELSE fetched
        /\ oPc' = IF r.err # "" THEN "returned"
                  ELSE IF r.hasWork THEN "session"
                  ELSE "summarize"
        /\ oErr' = r.err
    /\ UNCHANGED <<sessionCount, runs, resumeCompletedBeads, store, oPlan, oScope, oSummary>>
    /\ UNCHANGED orchFrame /\ UNCHANGED nonOrchVars

\* whether the caller of executeSession goes round the loop again: not on an
\* error, not on a cancelled session, never for the loose-issues plan;
\* loopGoesOnRegardless is the test without the look at what was returned
loopGoesOnRegardless(plan, r) == ~isLoosePlan(plan)
loopGoesOn(plan, r) ==
    ~(r.err # "" \/ r.outcome.Status = <<>> \/ isLoosePlan(plan))

\* what Wait hands to executeSession: under "pipeline" the Output is
\* stream.Redacted(), the buffer of the stream writer, and the secrets are
\* the ones the runner was started with
InputsFor(sessionID) ==
    CASE oScope = "reports" -> SessionInputs(sessionID)
      [] oScope = "pipeline" -> {SessionInput("ok", FALSE, wBuilder, 0, wSecrets)}
      [] OTHER -> TrackerInputs(sessionID)

\* what the Agent writes to the PTY: a noise line, a fenced report and the
\* footer that agrees with it
AgentText(sessionID, commit, details, esc) ==
    LET status == IF esc # <<>> THEN StatusFailure ELSE StatusSuccess IN
    NoiseLine \o <<LF>>
    \o FencePrefix \o sessionID \o <<LF>>
    \o StatusField \o status \o <<LF>>
    \o Take(CommitField, Len(CommitField) - 1) \o commit \o <<LF>>
    \o Take(DetailsInline, Len(DetailsInline) - 1) \o details \o <<LF>>
    \o (IF esc # <<>>
        THEN Take(EscalationField, Len(EscalationField) - 1) \o esc \o <<LF>>
        ELSE <<>>)
    \o FenceClose \o <<LF>>
    \o StatusPrefix \o <<SP>> \o status \o <<LF>>
    \o CommitPrefix \o <<SP>> \o details \o <<LF>>
    \o (IF esc # <<>> THEN EscalationPrefix \o <<SP>> \o esc \o <<LF>> ELSE <<>>)

\* a token the Agent may put into a field, and the secrets of OBI_REDACT:
\* none, the token, a secret that occurs nowhere
Token == <<"k","k">>
AgentTexts(sessionID) ==
    {AgentText(sessionID, commit, details, esc) :
        commit \in {<<"m">>, Token}, details \in {<<"x">>, <<"x",SP>> \o Token},
        esc \in {<<>>, <<"e">>, Token}}
PipelineSecrets == {<<>>, <<Token>>, <<<<"q">>>>}

\* Start of the one session: the stream writer with the runner's redactor,
\* before the first read of the PTY
PipelineInit ==
    /\ wSecrets \in PipelineSecrets
    /\ wStream \in AgentTexts(SessionIDOf(0))
    /\ wPos = 0
    /\ wLive = <<>> /\ wBuilder = <<>> /\ wTee = <<>> /\ wEvents = <<>>

\* io.Copy of a running session: the next read of the PTY, of any length,
\* the last of MaxCopies reads taking what is left
CopyOutput ==
    /\ oScope = "pipeline" /\ oPc = "session"
    /\ wPos < Len(wStream)
    /\ \E n \in 1..(Len(wStream) - wPos) :
        /\ Len(wEvents) + 1 = MaxCopies => n = Len(wStream) - wPos
        /\ streamWrite(SubSeq(wStream, wPos + 1, wPos + n))
        /\ wPos' = wPos + n
    /\ UNCHANGED <<wSecrets, wStream>>
    /\ UNCHANGED nonStreamVars

\* executeSession for the next work session, and what the caller does with
\* its return: runEpicLoop appends the bead and goes round, runGo returns
\* after the one session of a loose-issues plan
RunSession ==
    /\ oPc = "session"
    /\ oScope = "pipeline" => wPos = Len(wStream)
    /\ \E in \in InputsFor(SessionIDOf(sessionCount)) :
        \E r \in {executeSession(oPlan, SessionIDOf(sessionCount), in, store)} :
        /\ store' = r.s
        /\ runs' = Append(runs, RunRecord("work", oPlan, in, store, r))
        /\ oErr' = r.err
        /\ IF ~loopGoesOn(oPlan, r)
           THEN /\ oPc' = "returned"
                /\ UNCHANGED <<sessionCount, resumeCompletedBeads>>
           ELSE /\ oPc' = "preflight"
                /\ sessionCount' = sessionCount + 1
                /\ resumeCompletedBeads' =
                        IF TrimSpace(r.outcome.BeadID) # <<>>
                        THEN Append(resumeCompletedBeads, TrimSpace(r.outcome.BeadID))
                        ELSE resumeCompletedBeads
    /\ UNCHANGED <<oPlan, oReady, oScope, oSummary>>
    /\ UNCHANGED orchFrame /\ UNCHANGED nonOrchVars

\* maybeRunSummarizer: skipped when disabled or when the ledger has nothing
\* to summarize, else one more executeSession under the summary plan
Summarize ==
    /\ oPc = "summarize"
    /\ LET loaded == loadSummaryEntries(store, oPlan.EpicID,
                                        SummaryConfigValue(oSummary).MaxCommits)
           disabled == summarizerDisabled(SummaryConfigValue(oSummary)) IN
       \/ /\ disabled \/ loaded.err # "" \/ loaded.entries = <<>>
          /\ oErr' = IF disabled THEN "" ELSE loaded.err
          /\ UNCHANGED <<store, runs>>
       \/ /\ ~disabled /\ loaded.err = "" /\ loaded.entries # <<>>
          /\ \E in \in InputsFor(SessionIDOf(sessionCount)) :
                \E r \in {executeSession(SummaryPlan, SessionIDOf(sessionCount),
                                         in, store)} :
                /\ store' = r.s
                /\ runs' = Append(runs, RunRecord("summary", SummaryPlan, in, store, r))
                /\ oErr' = r.err
    /\ oPc' = "returned"
    /\ UNCHANGED <<sessionCount, resumeCompletedBeads, oPlan, oReady, oScope, oSummary>>
    /\ UNCHANGED orchFrame /\ UNCHANGED nonOrchVars

(***************************************************************************)
(* The signal relay (internal/app): operator signals mapped to SoftStop    *)
(* and Abort of the running session.                                       *)
(***************************************************************************)
Signals == {"interrupt", "terminate", "hangup"}
softStopReason == "Operator pressed Ctrl+C"

SoftStopCall(reason) == [op |-> "SoftStop", reason |-> reason]
AbortCall == [op |-> "Abort", reason |-> ""]

\* what the session control answers to a call
ControlAnswers == {"nil", "error"}

\* signalRelay.handleSignal on a relay with a session: the new softStopSent,
\* the calls made on the handle, the lines written to out
handleSignalLatchFree(sent, sig, answer) ==
    IF sig = "interrupt"
    THEN [sent |-> sent,
          calls |-> <<SoftStopCall(softStopReason)>>,
          out |-> <<"requesting soft stop">> \o
                  (IF answer = "error" THEN <<"Soft stop failed">> ELSE <<>>)]
    ELSE [sent |-> sent,
          calls |-> <<AbortCall>>,
          out |-> <<"aborting session immediately">> \o
                  (IF answer = "error" THEN <<"Abort failed">> ELSE <<>>)]
handleSignal(sent, sig, answer) ==
    IF sig = "interrupt"
    THEN IF ~sent
         THEN [sent |-> TRUE,
               calls |-> <<SoftStopCall(softStopReason)>>,
               out |-> <<"requesting soft stop">> \o
                       (IF answer = "error" THEN <<"Soft stop failed">> ELSE <<>>)]
         ELSE [sent |-> sent,
               calls |-> <<AbortCall>>,
               out |-> <<"Second Ctrl+C detected">> \o
                       (IF answer = "error" THEN <<"Abort failed">> ELSE <<>>)]
    ELSE [sent |-> sent,
          calls |-> <<AbortCall>>,
          out |-> <<"aborting session immediately">> \o
                  (IF answer = "error" THEN <<"Abort failed">> ELSE <<>>)]

\* make(chan os.Signal, 2) in executeSession
sigChSize == 2

RelayIdle ==
    /\ softStopSent = FALSE /\ relaySignals = <<>> /\ ctrlCalls = <<>>
    /\ relayOut = <<>>
    /\ sigCh = <<>> /\ sigClosed = FALSE /\ relayDone = FALSE /\ relayPc = "off"

\* newSignalRelay
RelayInit == RelayIdle

\* the relay goroutine takes one signal off the channel and handles it; the
\* handle answers the call with nil or with an error
RelaySignal ==
    /\ Len(relaySignals) < MaxSignals
    /\ \E sig \in Signals, answer \in ControlAnswers :
        \E r \in {handleSignal(softStopSent, sig, answer)} :
            /\ softStopSent' = r.sent
            /\ ctrlCalls' = ctrlCalls \o r.calls
            /\ relayOut' = relayOut \o r.out
            /\ relaySignals' = Append(relaySignals, [sig |-> sig, answer |-> answer])
    /\ UNCHANGED <<sigCh, sigClosed, relayDone, relayPc>>
    /\ UNCHANGED nonRelayVars

\* startSignalRelay in executeSession: the goroutine waits in its select
RelayRunInit ==
    /\ softStopSent = FALSE /\ relaySignals = <<>> /\ ctrlCalls = <<>>
    /\ relayOut = <<>>
    /\ sigCh = <<>> /\ sigClosed = FALSE /\ relayDone = FALSE /\ relayPc = "select"

\* signal.Notify delivers a signal without blocking: it is dropped when the
\* buffer is full, and none is delivered after signal.Stop
SignalArrives ==
    /\ ~sigClosed /\ Len(sigCh) < sigChSize
    /\ Len(relaySignals) + Len(sigCh) < MaxSignals
    /\ \E sig \in Signals : sigCh' = Append(sigCh, sig)
    /\ UNCHANGED <<softStopSent, relaySignals, ctrlCalls, relayOut, sigClosed,
                   relayDone, relayPc>>
    /\ UNCHANGED nonRelayVars

\* the select of the goroutine takes its signals case, which is ready when a
\* signal is buffered, whether or not done is closed: handleSignal runs
RelayReceive ==
    /\ relayPc = "select" /\ sigCh # <<>>
    /\ \E answer \in ControlAnswers :
        \E r \in {handleSignal(softStopSent, Head(sigCh), answer)} :
            /\ softStopSent' = r.sent
            /\ ctrlCalls' = ctrlCalls \o r.calls
            /\ relayOut' = relayOut \o r.out
            /\ relaySignals' = Append(relaySignals, [sig |-> Head(sigCh), answer |-> answer])
    /\ sigCh' = Tail(sigCh)
    /\ UNCHANGED <<sigClosed, relayDone, relayPc>>
    /\ UNCHANGED nonRelayVars

\* the select takes its done case, or finds the signal channel closed and
\* empty: the goroutine returns
RelayReturn ==
    /\ relayPc = "select"
    /\ relayDone \/ (sigClosed /\ sigCh = <<>>)
    /\ relayPc' = "returned"
    /\ UNCHANGED <<softStopSent, relaySignals, ctrlCalls, relayOut, sigCh, sigClosed,
                   relayDone>>
    /\ UNCHANGED nonRelayVars

\* the deferred function of executeSession, first statement: stopRelay()
\* closes done and returns
StopRelay ==
    /\ ~relayDone
    /\ relayDone' = TRUE
    /\ UNCHANGED <<softStopSent, relaySignals, ctrlCalls, relayOut, sigCh, sigClosed,
                   relayPc>>
    /\ UNCHANGED nonRelayVars

\* the deferred function, second and third statement: signal.Stop(sigCh) and
\* close(sigCh)
CloseSignals ==
    /\ relayDone /\ ~sigClosed
    /\ sigClosed' = TRUE
    /\ UNCHANGED <<softStopSent, relaySignals, ctrlCalls, relayOut, sigCh, relayDone,
                   relayPc>>
    /\ UNCHANGED nonRelayVars


(***************************************************************************)
(* The TUI shell (internal/tui): Shell.Run and the terminal it owns.       *)
(***************************************************************************)
\* the terminal as the operator left it: line discipline and cursor, with
\* what Run did to it: restore calls made, escape sequences written
CookedTerminal ==
    [attrs |-> "cooked", cursor |-> "shown", restored |-> <<>>, ansi |-> <<>>,
     frames |-> 0]

\* Shell.render with its write to out succeeding: one more frame drawn
drawn(t) == [t EXCEPT !.frames = @ + 1]

HideCursor == "\\x1b[?25l"
ShowCursorReset == "\\x1b[?25h\\x1b[0m"

\* the outcomes of the two ioctls and of a write to out
IoctlOutcomes == {"ok", "error"}

\* Shell.writeAnsi: the sequence is written to out, the error dropped
writeAnsi(t, seq) ==
    [t EXCEPT !.ansi = Append(@, seq),
              !.cursor = IF seq = HideCursor THEN "hidden" ELSE "shown"]

\* termAdapter.restore on the saved state: the saved attributes are written
\* back unless the ioctl fails
termRestore(t, fd, state, ioctl) ==
    [t EXCEPT !.restored = Append(@, [state |-> state, ioctl |-> ioctl]),
              !.attrs = IF state # "nil" /\ ioctl = "ok" THEN state ELSE @]

\* Shell.restoreTerminal; restoreTerminalCursorOnly leaves the attributes as
\* they are
restoreTerminalCursorOnly(t, fd, state, ioctl) ==
    writeAnsi(t, ShowCursorReset)
restoreTerminal(t, fd, state, ioctl) ==
    writeAnsi(IF state # "nil" /\ fd >= 0 THEN termRestore(t, fd, state, ioctl) ELSE t,
              ShowCursorReset)

ShellEventKinds == {"LogChunk", "StateChange", "Exit"}
ShellInputs ==
    [nil : {TRUE}, queue : {<<>>}, closes : {FALSE}, taken : {0}]
    \cup [nil : {FALSE}, taken : {0},
          queue : UNION {[1..n -> ShellEventKinds] : n \in 0..MaxShellEvents},
          closes : BOOLEAN]

ShellIdle ==
    /\ shPc = "idle" /\ shErr = "" /\ shFd = -1 /\ shState = "nil"
    /\ term = CookedTerminal /\ ctxDone = FALSE
    /\ shEvents = [nil |-> TRUE, queue |-> <<>>, closes |-> FALSE, taken |-> 0]
    /\ renderCh = 0

\* NewShell, then Run called with a context and an events channel
ShellInit ==
    /\ shPc = "run" /\ shErr = "" /\ shFd = -1 /\ shState = "nil"
    /\ term = CookedTerminal /\ ctxDone = FALSE
    /\ shEvents \in ShellInputs
    /\ renderCh = 0

\* Run returns err: the deferred restoreTerminal runs first
ShellReturns(t, err) ==
    /\ \E ioctl \in IoctlOutcomes : term' = restoreTerminal(t, shFd, shState, ioctl)
    /\ shErr' = err
    /\ shPc' = "returned"

\* Shell.render: the frame is written to out, or the write fails
RenderOutcomes == {"ok", "render tui"}

\* Run up to the loop: the nil check, enterRawMode, the first render
ShellEnter ==
    /\ shPc = "run"
    /\ IF shEvents.nil
       THEN /\ shErr' = "events channel is required" /\ shPc' = "returned"
            /\ UNCHANGED <<shFd, shState, term>>
       ELSE \E makeRaw \in IoctlOutcomes :
            IF makeRaw = "error"
            THEN /\ shErr' = "enable raw mode" /\ shPc' = "returned"
                 /\ UNCHANGED <<shFd, shState, term>>
            ELSE /\ shFd' = 0 /\ shState' = term.attrs
                 /\ \E rendered \in RenderOutcomes :
                    \E t \in {writeAnsi([term EXCEPT !.attrs = "raw"], HideCursor)} :
                    IF rendered = "ok"
                    THEN shPc' = "loop" /\ term' = drawn(t) /\ shErr' = ""
                    ELSE \E ioctl \in IoctlOutcomes :
                            /\ term' = restoreTerminal(t, 0, term.attrs, ioctl)
                            /\ shErr' = rendered /\ shPc' = "returned"
    /\ UNCHANGED <<ctxDone, shEvents, renderCh>>
    /\ UNCHANGED nonShellVars

\* case <-ctx.Done()
ShellCtxDone ==
    /\ shPc = "loop" /\ ctxDone
    /\ ShellReturns(term, "context canceled")
    /\ UNCHANGED <<shFd, shState, ctxDone, shEvents, renderCh>>
    /\ UNCHANGED nonShellVars

\* case <-s.renderCh
ShellRenderTick ==
    /\ shPc = "loop" /\ renderCh = 1
    /\ renderCh' = 0
    /\ \E rendered \in RenderOutcomes :
        IF rendered = "ok" THEN term' = drawn(term) /\ UNCHANGED <<shPc, shErr>>
        ELSE ShellReturns(term, rendered)
    /\ UNCHANGED <<shFd, shState, ctxDone, shEvents>>
    /\ UNCHANGED nonShellVars

\* case evt, ok := <-events with ok: HandleEvent, which asks for no render
\* of its own, then render
ShellEvent ==
    /\ shPc = "loop" /\ shEvents.queue # <<>>
    /\ shEvents' = [shEvents EXCEPT !.queue = Tail(@), !.taken = @ + 1]
    /\ \E rendered \in RenderOutcomes :
        IF rendered = "ok" THEN term' = drawn(term) /\ UNCHANGED <<shPc, shErr>>
        ELSE ShellReturns(term, rendered)
    /\ UNCHANGED <<shFd, shState, ctxDone, renderCh>>
    /\ UNCHANGED nonShellVars

\* case evt, ok := <-events with the channel closed: flushPending and the
\* last render, whose error is Run's
ShellEventsClosed ==
    /\ shPc = "loop" /\ shEvents.queue = <<>> /\ shEvents.closes
    /\ \E rendered \in RenderOutcomes :
        ShellReturns(IF rendered = "ok" THEN drawn(term) ELSE term,
                     IF rendered = "ok" THEN "" ELSE rendered)
    /\ UNCHANGED <<shFd, shState, ctxDone, shEvents, renderCh>>
    /\ UNCHANGED nonShellVars

\* the caller cancels the context
CancelContext ==
    /\ shPc \in {"run", "loop"} /\ ~ctxDone
    /\ ctxDone' = TRUE
    /\ UNCHANGED <<shPc, shErr, shFd, shState, term, shEvents, renderCh>>
    /\ UNCHANGED nonShellVars

\* Shell.RequestRender from another goroutine: a token in renderCh if it is
\* empty
RequestRender ==
    /\ shPc \in {"run", "loop"} /\ renderCh = 0 /\ term.frames < MaxShellFrames
    /\ renderCh' = 1
    /\ UNCHANGED <<shPc, shErr, shFd, shState, term, ctxDone, shEvents>>
    /\ UNCHANGED nonShellVars

(***************************************************************************)
(* executeSession as a process (internal/app): the session it starts, the  *)
(* TUI, the signal relay, the transcript file.                             *)
(***************************************************************************)
ExecIdle ==
    /\ xPc = "idle" /\ xUseTUI = FALSE /\ xTrace = <<>> /\ xErr = ""
    /\ xChild = "none" /\ xView = "none" /\ xDefers = <<>>

\* executeSession called with or without --no-tui
ExecInit ==
    /\ xPc = "confirm" /\ xUseTUI \in BOOLEAN /\ xTrace = <<>> /\ xErr = ""
    /\ xChild = "none" /\ xView = "none" /\ xDefers = <<>>

Did(op) == \E i \in DOMAIN xTrace : xTrace[i] = op
Times(op) == Cardinality({i \in DOMAIN xTrace : xTrace[i] = op})
FirstOf(op) == CHOOSE i \in DOMAIN xTrace : xTrace[i] = op /\ \A j \in 1..(i - 1) : xTrace[j] # op

\* the deferred calls of executeSession, last registered first: a return
\* before the relay is started has only the transcript to close
deferredCallsEarly == <<"transcript.Close">>
deferredCalls ==
    <<"stopRelay">> \o (IF xView = "running" THEN <<"sessionView.Stop">> ELSE <<>>)
    \o <<"transcript.Close">>

\* PreparePrompt, the confirmation, codexexec.Build: nothing is open yet
ExecConfirm ==
    /\ xPc = "confirm"
    /\ \E outcome \in {"ok", "Run cancelled", "confirmation error"} :
        /\ xPc' = IF outcome = "ok" THEN "open" ELSE "returned"
        /\ xErr' = IF outcome = "confirmation error" THEN outcome ELSE ""
    /\ UNCHANGED <<xUseTUI, xTrace, xChild, xView, xDefers>>
    /\ UNCHANGED nonExecVars

\* openTranscriptWriter and defer transcript.Close()
ExecOpenTranscript ==
    /\ xPc = "open"
    /\ \E outcome \in {"ok", "open transcript"} :
        /\ xPc' = IF outcome = "ok" THEN "start" ELSE "returned"
        /\ xErr' = IF outcome = "ok" THEN "" ELSE outcome
        /\ xTrace' = IF outcome = "ok" THEN Append(xTrace, "transcript.Open") ELSE xTrace
    /\ UNCHANGED <<xUseTUI, xChild, xView, xDefers>>
    /\ UNCHANGED nonExecVars

\* sessionRunner.Start: a handle and a running child, or an error
ExecStart ==
    /\ xPc = "start"
    /\ \E outcome \in {"ok", "start error"} :
        IF outcome = "ok"
        THEN /\ xTrace' = Append(xTrace, "Start")
             /\ xChild' = "running"
             /\ xPc' = IF xUseTUI THEN "tui" ELSE "wait"
             /\ UNCHANGED <<xErr, xDefers>>
        ELSE /\ xDefers' = deferredCallsEarly
             /\ xErr' = outcome /\ xPc' = "unwinding"
             /\ UNCHANGED <<xChild, xTrace>>
    /\ UNCHANGED <<xUseTUI, xView>>
    /\ UNCHANGED nonExecVars

\* startSessionTUI: Shell.Run is started in a goroutine and its done channel
\* polled once; a Run that has already failed (raw mode, first render) is an
\* error of startSessionTUI, and executeSession returns it
ExecStartTUI ==
    /\ xPc = "tui"
    /\ \E outcome \in {"running", "enable raw mode"} :
        IF outcome = "running"
        THEN /\ xView' = "running" /\ xPc' = "wait"
             /\ UNCHANGED <<xErr, xDefers>>
        ELSE /\ xDefers' = deferredCallsEarly
             /\ xErr' = outcome /\ xPc' = "unwinding"
             /\ UNCHANGED xView
    /\ UNCHANGED <<xUseTUI, xChild, xTrace>>
    /\ UNCHANGED nonExecVars

\* startSignalRelay, then handle.Wait(), which returns once the child has
\* exited and reaps it; with an error from Wait executeSession returns
ExecWait ==
    /\ xPc = "wait" /\ xChild = "exited"
    /\ xChild' = "reaped"
    /\ xTrace' = Append(xTrace, "Wait")
    /\ \E outcome \in {"ok", "wait error"} :
        IF outcome = "ok"
        THEN /\ xPc' = "report"
             /\ UNCHANGED <<xErr, xDefers>>
        ELSE /\ xDefers' = deferredCalls
             /\ xErr' = outcome /\ xPc' = "unwinding"
    /\ UNCHANGED <<xUseTUI, xView>>
    /\ UNCHANGED nonExecVars

\* the reports are parsed and compared, the ledger entry appended, and
\* executeSession returns
ExecReport ==
    /\ xPc = "report"
    /\ \E outcome \in {"", "parse fenced report", "append ledger"} :
        /\ xDefers' = deferredCalls
        /\ xErr' = outcome /\ xPc' = "unwinding"
    /\ UNCHANGED <<xUseTUI, xChild, xTrace, xView>>
    /\ UNCHANGED nonExecVars

\* the return runs the next deferred call, and after the last one the
\* caller has the result
ExecDeferred ==
    /\ xPc = "unwinding"
    /\ IF xDefers = <<>>
       THEN xPc' = "returned" /\ UNCHANGED <<xTrace, xView, xDefers>>
       ELSE /\ xTrace' = Append(xTrace, Head(xDefers))
            /\ xDefers' = Tail(xDefers)
            /\ xView' = IF Head(xDefers) = "sessionView.Stop" THEN "stopped" ELSE xView
            /\ UNCHANGED xPc
    /\ UNCHANGED <<xUseTUI, xErr, xChild>>
    /\ UNCHANGED nonExecVars

\* the copier of the session writes a chunk of the child's output to the tee
ChildOutput ==
    /\ xChild = "running" /\ Times("tee.Write") < MaxChildWrites
    /\ xTrace' = Append(xTrace, "tee.Write")
    /\ UNCHANGED <<xPc, xUseTUI, xErr, xChild, xView, xDefers>>
    /\ UNCHANGED nonExecVars

\* the child exits
ChildExit ==
    /\ xChild = "running"
    /\ xChild' = "exited"
    /\ UNCHANGED <<xPc, xUseTUI, xTrace, xErr, xView, xDefers>>
    /\ UNCHANGED nonExecVars

(***************************************************************************)
(* The input router (internal/tui): hotkeys, pass-through, hint capture.   *)
(***************************************************************************)
ESC == "\\x1b"
DEL == "\\x7f"
BS == "\\x08"
\* a byte above 0x7f, as a multi-byte character sends
HighByte == "\\xc3"

ModePassthrough == "Passthrough"
ModeHint == "Hint"
softStopReasonDefault == <<"Operator requested soft stop (hotkey 's')">>

\* the calls the router makes on SessionControls, ShellBindings and
\* HintSubmitter
RouterCall(op, active, text) == [op |-> op, active |-> active, text |-> text]
WriteInputCall(b) == RouterCall("WriteInput", FALSE, <<b>>)
SoftStopHotkey == RouterCall("SoftStop", FALSE, softStopReasonDefault)
AbortHotkey == RouterCall("Abort", FALSE, <<>>)
TogglePauseCall == RouterCall("TogglePause", FALSE, <<>>)
ToggleHelpCall == RouterCall("ToggleHelp", FALSE, <<>>)
SetHintInput(active, text) == RouterCall("SetHintInput", active, text)
SubmitHintCall(text) == RouterCall("SubmitHint", FALSE, text)

RouterStep(mode, buf, calls, err) ==
    [mode |-> mode, hintBuf |-> buf, calls |-> calls, err |-> err]

AnswerErr(answer, what) == IF answer = "error" THEN what ELSE ""

\* startHintCapture and exitHintCapture, with syncHintUI
startHintCapture == RouterStep(ModeHint, <<>>, <<SetHintInput(TRUE, <<>>)>>, "")
exitHintCapture(calls) ==
    RouterStep(ModePassthrough, <<>>, calls \o <<SetHintInput(FALSE, <<>>)>>, "")

\* handlePassthroughByte; answer is what the session answers to the call.
\* handlePassthroughByteExact is the switch without unicode.ToLower
handlePassthroughByteExact(buf, b, answer) ==
    CASE b = "p" -> RouterStep(ModePassthrough, buf, <<TogglePauseCall>>, "")
      [] b = "h" -> startHintCapture
      [] b = "s" -> RouterStep(ModePassthrough, buf, <<SoftStopHotkey>>,
                               AnswerErr(answer, "soft stop"))
      [] b = "q" -> RouterStep(ModePassthrough, buf, <<AbortHotkey>>,
                               AnswerErr(answer, "abort"))
      [] b = "?" -> RouterStep(ModePassthrough, buf, <<ToggleHelpCall>>, "")
      [] OTHER -> RouterStep(ModePassthrough, buf, <<WriteInputCall(b)>>,
                             AnswerErr(answer, "write input"))
handlePassthroughByte(buf, b, answer) ==
    CASE LowerChar(b) = "p" -> RouterStep(ModePassthrough, buf, <<TogglePauseCall>>, "")
      [] LowerChar(b) = "h" -> startHintCapture
      [] LowerChar(b) = "s" -> RouterStep(ModePassthrough, buf, <<SoftStopHotkey>>,
                                          AnswerErr(answer, "soft stop"))
      [] LowerChar(b) = "q" -> RouterStep(ModePassthrough, buf, <<AbortHotkey>>,
                                          AnswerErr(answer, "abort"))
      [] b = "?" -> RouterStep(ModePassthrough, buf, <<ToggleHelpCall>>, "")
      [] OTHER -> RouterStep(ModePassthrough, buf, <<WriteInputCall(b)>>,
                             AnswerErr(answer, "write input"))

\* finalizeHint: a failed submission is returned before exitHintCapture
finalizeHint(buf, answer) ==
    IF TrimSpace(buf) # <<>>
    THEN IF answer = "error"
         THEN RouterStep(ModeHint, buf, <<SubmitHintCall(buf)>>, "submit hint")
         ELSE exitHintCapture(<<SubmitHintCall(buf)>>)
    ELSE exitHintCapture(<<>>)

\* handleHintByte
handleHintByte(buf, b, answer) ==
    CASE b = ESC -> exitHintCapture(<<>>)
      [] b \in {CR, LF} -> finalizeHint(buf, answer)
      [] b \in {DEL, BS} ->
            IF Len(buf) > 0
            THEN RouterStep(ModeHint, Take(buf, Len(buf) - 1),
                            <<SetHintInput(TRUE, Take(buf, Len(buf) - 1))>>, "")
            ELSE RouterStep(ModeHint, buf, <<>>, "")
      [] OTHER -> RouterStep(ModeHint, Append(buf, b),
                             <<SetHintInput(TRUE, Append(buf, b))>>, "")

handleByte(mode, buf, b, answer) ==
    IF mode = ModeHint THEN handleHintByte(buf, b, answer)
    ELSE handlePassthroughByte(buf, b, answer)

\* the keys of the operator: the hotkeys in both cases, plain bytes, the
\* keys of the hint line, a byte of a multi-byte character
Keys ==
    {"p", "P", "h", "H", "s", "S", "q", "Q", "?", "a", SP, CR, LF, ESC, DEL, BS,
     HighByte}
Hotkeys == {"p", "P", "h", "H", "s", "S", "q", "Q", "?"}

RouterIdle ==
    /\ irMode = ModePassthrough /\ hintBuf = <<>> /\ irKeys = <<>>
    /\ irCalls = <<>> /\ irErr = "idle"

\* NewInputRouter as startSessionTUI wires it: session, shell and hint
\* submitter all present
RouterInit ==
    /\ irMode = ModePassthrough /\ hintBuf = <<>> /\ irKeys = <<>>
    /\ irCalls = <<>> /\ irErr = ""

\* Run hands the next byte read to handleByte; an error ends Run
RouterByte ==
    /\ irErr = "" /\ Len(irKeys) < MaxKeys
    /\ \E b \in Keys, answer \in ControlAnswers :
        \E r \in {handleByte(irMode, hintBuf, b, answer)} :
            /\ irMode' = r.mode
            /\ hintBuf' = r.hintBuf
            /\ irCalls' = irCalls \o r.calls
            /\ irErr' = r.err
            /\ irKeys' = Append(irKeys, [key |-> b, mode |-> irMode])
    /\ UNCHANGED nonRouterVars

(***************************************************************************)
(* Streams given to the parser that need not hold a well-formed report: a  *)
(* report with one thing wrong with it, and what may follow it.            *)
(***************************************************************************)
OtherID == <<"s","2">>
Defects ==
    {"none", "wrongID", "noID", "noStatus", "bogusStatus", "emptyStatus",
     "shoutedStatus", "noCommit", "emptyCommit", "noDetails", "emptyDetails",
     "blankBlock", "twoDetails", "noEscalation", "blankEscalation", "strayLine",
     "unclosed", "closeNoEol", "closedLate"}

RECURSIVE JoinLines(_, _)
JoinLines(ls, eol) ==
    IF ls = <<>> THEN <<>> ELSE Head(ls) \o eol \o JoinLines(Tail(ls), eol)

DefectiveLines(block, status, defect) ==
    <<NoiseLine>>
    \o <<CASE defect = "wrongID" -> FencePrefix \o OtherID
           [] defect = "noID" -> FencePrefix \o <<SP>>
           [] OTHER -> FencePrefix \o <<SP>> \o SampleID>>
    \o (CASE defect \in {"noStatus", "closedLate"} -> <<>>
          [] defect = "bogusStatus" -> <<StatusField \o StatusBogus>>
          [] defect = "emptyStatus" -> <<StatusField>>
          [] defect = "shoutedStatus" -> <<StatusField \o Upper(status)>>
          [] OTHER -> <<StatusField \o status>>)
    \o (CASE defect = "noCommit" -> <<>>
          [] defect = "emptyCommit" -> <<Take(CommitField, Len(CommitField) - 1)>>
          [] OTHER -> <<CommitField>>)
    \o (CASE defect = "noDetails" -> <<>>
          [] defect = "emptyDetails" -> <<Take(DetailsInline, Len(DetailsInline) - 1)>>
          [] defect = "blankBlock" -> <<DetailsBlockHead, <<SP, SP>>>>
          [] defect = "twoDetails" -> <<DetailsInline, DetailsInline>>
          [] block -> <<DetailsBlockHead, DetailsBlockLine1, DetailsBlockLine2>>
          [] OTHER -> <<DetailsInline>>)
    \o (CASE defect = "noEscalation" -> <<>>
          [] defect = "blankEscalation" ->
                <<Take(EscalationField, Len(EscalationField) - 1)>>
          [] status = StatusFailure -> <<EscalationField>>
          [] OTHER -> <<>>)
    \o (IF defect = "strayLine" THEN <<NoiseLine>> ELSE <<>>)
    \o (CASE defect = "unclosed" -> <<>>
          [] defect = "closedLate" ->
                <<FenceClose, StatusField \o status, FenceClose>>
          [] OTHER -> <<FenceClose>>)

DefectiveText(eol, block, status, defect) ==
    LET text == JoinLines(DefectiveLines(block, status, defect), eol) IN
    IF defect = "closeNoEol" THEN Take(text, Len(text) - Len(eol)) ELSE text

AnyTexts ==
    {DefectiveText(eol, block, status, defect) :
        eol \in {<<LF>>, <<CR, LF>>}, block \in BOOLEAN,
        status \in {StatusSuccess, StatusFailure}, defect \in Defects}

\* a parser bound to the session id or to none, before its first chunk; a
\* caller that goes on feeding whatever Feed returned
ParserInitAny ==
    /\ pText \in AnyTexts
    /\ pRest = pText
    /\ parser \in {NewParser(SampleID), NewParser(<<>>)}
    /\ pOutcome = Outcome(Returned(parser, EmptyResult, FALSE, "ok"))
    /\ pPc = "feeding"
    /\ SentinelIdle

(***************************************************************************)
(* The Sentinel (internal/interactive): the parser behind the session's    *)
(* events, with the first report or error it returned kept.                *)
(***************************************************************************)
Consume(s, evt) ==
    IF s.done THEN SentinelReturn(s, s.result, s.done, s.err)
    ELSE IF evt.Type # "LogChunk" THEN SentinelReturn(s, EmptyResult, FALSE, "ok")
    ELSE Only({IF r.err # "ok"
               THEN SentinelReturn([s EXCEPT !.parser = r.p, !.err = r.err,
                                             !.done = TRUE],
                                   EmptyResult, FALSE, r.err)
               ELSE IF r.done
               THEN SentinelReturn([s EXCEPT !.parser = r.p, !.result = r.res,
                                             !.done = TRUE],
                                   r.res, TRUE, "ok")
               ELSE SentinelReturn([s EXCEPT !.parser = r.p], EmptyResult, FALSE, "ok") :
               r \in {Feed(s.parser, evt.Chunk)}})

SentinelFinalize(s) ==
    IF s.done THEN SentinelReturn(s, s.result, TRUE, s.err)
    ELSE Only({IF r.err # "ok"
               THEN SentinelReturn([s EXCEPT !.parser = r.p, !.err = r.err,
                                             !.done = TRUE],
                                   EmptyResult, FALSE, r.err)
               ELSE IF r.done
               THEN SentinelReturn([s EXCEPT !.parser = r.p, !.result = r.res,
                                             !.done = TRUE],
                                   r.res, TRUE, "ok")
               ELSE SentinelReturn([s EXCEPT !.parser = r.p], EmptyResult, FALSE, "ok") :
               r \in {Finalize(s.parser)}})

\* the first report or error among the returns so far
latch(latched, r) ==
    IF ~latched.set /\ (r.done \/ r.err # "ok")
    THEN [set |-> TRUE, res |-> r.res, done |-> r.done, err |-> r.err]
    ELSE latched

\* NewSentinel(sessionID) before the first event of a session whose output
\* is any text, a defective report included
SentinelInit ==
    /\ snl = NewSentinel(SampleID)
    /\ snRet = Outcome(SentinelReturn(snl, EmptyResult, FALSE, "ok"))
    /\ snLatched = NothingLatched
    /\ snRest \in AnyTexts
    /\ snCalls = 0
    /\ pText = <<>> /\ pRest = <<>> /\ parser = NewParser(<<>>)
    /\ pOutcome = Outcome(Returned(parser, EmptyResult, FALSE, "ok")) /\ pPc = "idle"

\* Consume of the LogChunk event that carries the next chunk of the output
SentinelConsumeChunk ==
    /\ snRest # <<>>
    /\ \E n \in {k \in 1..Len(snRest) : k <= MaxChunkLen \/ k = Len(snRest)} :
        \E r \in {Consume(snl, [Type |-> "LogChunk", Chunk |-> Take(snRest, n)])} :
        /\ snl' = r.s
        /\ snRet' = Outcome(r)
        /\ snLatched' = latch(snLatched, r)
        /\ snRest' = Drop(snRest, n)
    /\ UNCHANGED snCalls
    /\ UNCHANGED <<pText, pRest, parser, pOutcome, pPc>>
    /\ UNCHANGED nonParserVars

\* Consume of a StateChange or Exit event
SentinelConsumeOther ==
    /\ snCalls < MaxSentinelCalls
    /\ \E type \in {"StateChange", "Exit"} :
        \E r \in {Consume(snl, [Type |-> type, Chunk |-> <<>>])} :
        /\ snl' = r.s
        /\ snRet' = Outcome(r)
        /\ snLatched' = latch(snLatched, r)
    /\ snCalls' = snCalls + 1
    /\ UNCHANGED snRest
    /\ UNCHANGED <<pText, pRest, parser, pOutcome, pPc>>
    /\ UNCHANGED nonParserVars

\* Finalize, when the stream has ended or before
SentinelFinalizeCall ==
    /\ snCalls < MaxSentinelCalls
    /\ \E r \in {SentinelFinalize(snl)} :
        /\ snl' = r.s
        /\ snRet' = Outcome(r)
        /\ snLatched' = latch(snLatched, r)
    /\ snCalls' = snCalls + 1
    /\ UNCHANGED snRest
    /\ UNCHANGED <<pText, pRest, parser, pOutcome, pPc>>
    /\ UNCHANGED nonParserVars

(***************************************************************************)
(* The writers of the PTY of one session: softStop, submitHint and         *)
(* writeInput of the sessionExecution, called concurrently.                *)
(***************************************************************************)
InputCallers == {"softStop", "submitHint", "writeInput"}

\* the mutex a caller takes around its write
MutexOf(c) == IF c = "softStop" THEN "softStopMu" ELSE "inputMu"

InputIdle ==
    /\ inPc = [c \in InputCallers |-> "off"]
    /\ inMu = [m \in {"softStopMu", "inputMu"} |-> "free"]
    /\ inIssued = FALSE
    /\ inCalls = [c \in InputCallers |-> 0]
    /\ ptyIn = <<>>

\* a running session, its handle and tty in place, no call made yet
InputInit ==
    /\ inPc = [c \in InputCallers |-> "idle"]
    /\ inMu = [m \in {"softStopMu", "inputMu"} |-> "free"]
    /\ inIssued = FALSE
    /\ inCalls = [c \in InputCallers |-> 0]
    /\ ptyIn = <<>>

\* the call takes its mutex; softStop returns nil at once when a soft stop
\* was issued; otherwise the write to s.handle.tty begins
InputLock(c) ==
    /\ inPc[c] = "idle" /\ inCalls[c] < MaxInputCalls
    /\ inMu[MutexOf(c)] = "free"
    /\ inCalls' = [inCalls EXCEPT ![c] = @ + 1]
    /\ IF c = "softStop" /\ inIssued
       THEN UNCHANGED <<inPc, inMu>>
       ELSE /\ inPc' = [inPc EXCEPT ![c] = "writing"]
            /\ inMu' = [inMu EXCEPT ![MutexOf(c)] = c]
    /\ UNCHANGED <<inIssued, ptyIn>>
    /\ UNCHANGED nonInputVars

\* tty.Write returns: the PTY has the block or the payload of the caller
InputWritten(c) ==
    /\ inPc[c] = "writing"
    /\ ptyIn' = Append(ptyIn, c)
    /\ inPc' = [inPc EXCEPT ![c] = "written"]
    /\ UNCHANGED <<inMu, inIssued, inCalls>>
    /\ UNCHANGED nonInputVars

\* what follows the write: softStopIssued = true for softStop, then the
\* deferred Unlock
InputReturn(c) ==
    /\ inPc[c] = "written"
    /\ inIssued' = (inIssued \/ c = "softStop")
    /\ inMu' = [inMu EXCEPT ![MutexOf(c)] = "free"]
    /\ inPc' = [inPc EXCEPT ![c] = "idle"]
    /\ UNCHANGED <<inCalls, ptyIn>>
    /\ UNCHANGED nonInputVars

(***************************************************************************)
(* The display of a session (startSessionTUI, sessionDisplay.Stop) once    *)
(* the session has exited: the goroutines it started and the callers of    *)
(* Stop.                                                                   *)
(***************************************************************************)
DisplayIdle ==
    /\ dStop = [c \in Callers |-> "off"] /\ dOnce = "fresh"
    /\ dReleased = FALSE /\ dInputCancelled = FALSE /\ dShellCancelled = FALSE
    /\ dRouter = "off" /\ dInputDone = 0 /\ dStdin = 0 /\ dTyped = 0
    /\ dForwarder = "off" /\ dShell = "off" /\ dDone = 0

\* startSessionTUI has returned the display and the session has exited: the
\* forwarder found the session's events closed and waits for release, the
\* shell runs, the router is about to read
DisplayInit ==
    /\ dStop = [c \in Callers |-> "idle"] /\ dOnce = "fresh"
    /\ dReleased = FALSE /\ dInputCancelled = FALSE /\ dShellCancelled = FALSE
    /\ dRouter = "select" /\ dInputDone = 0 /\ dStdin = 0 /\ dTyped = 0
    /\ dForwarder = "wait release" /\ dShell = "running" /\ dDone = 0

\* the operator types a byte
OperatorTypes ==
    /\ dTyped < MaxOperatorBytes
    /\ dStdin' = dStdin + 1 /\ dTyped' = dTyped + 1
    /\ UNCHANGED <<dStop, dOnce, dReleased, dInputCancelled, dShellCancelled, dRouter,
                   dInputDone, dForwarder, dShell, dDone>>
    /\ UNCHANGED nonDisplayVars

\* InputRouter.Run, the head of its loop: a cancelled context ends Run, which
\* hands ctx.Err() to inputDone; otherwise src.Read is called
RouterSelect ==
    /\ dRouter = "select"
    /\ IF dInputCancelled
       THEN dRouter' = "returned" /\ dInputDone' = 1
       ELSE dRouter' = "read" /\ UNCHANGED dInputDone
    /\ UNCHANGED <<dStop, dOnce, dReleased, dInputCancelled, dShellCancelled, dStdin,
                   dTyped, dForwarder, dShell, dDone>>
    /\ UNCHANGED nonDisplayVars

\* src.Read on the raw terminal (VMIN = 1, VTIME = 0) returns when a byte is
\* there; HandleBytes routes what was read and an error of it ends Run
RouterRead ==
    /\ dRouter = "read" /\ dStdin > 0
    /\ dStdin' = 0
    /\ \E handleErr \in BOOLEAN :
        IF handleErr
        THEN dRouter' = "returned" /\ dInputDone' = 1
        ELSE dRouter' = "select" /\ UNCHANGED dInputDone
    /\ UNCHANGED <<dStop, dOnce, dReleased, dInputCancelled, dShellCancelled, dTyped,
                   dForwarder, dShell, dDone>>
    /\ UNCHANGED nonDisplayVars

\* the forwarder of startSessionTUI: <-release, then the deferred close(events)
ForwarderEnd ==
    /\ dForwarder = "wait release" /\ dReleased
    /\ dForwarder' = "returned"
    /\ UNCHANGED <<dStop, dOnce, dReleased, dInputCancelled, dShellCancelled, dRouter,
                   dInputDone, dStdin, dTyped, dShell, dDone>>
    /\ UNCHANGED nonDisplayVars

\* shell.Run returns when its context is cancelled or its events are closed,
\* the terminal restored; its error goes to done
ShellRunEnds ==
    /\ dShell = "running"
    /\ dShellCancelled \/ dForwarder = "returned"
    /\ dShell' = "returned" /\ dDone' = 1
    /\ UNCHANGED <<dStop, dOnce, dReleased, dInputCancelled, dShellCancelled, dRouter,
                   dInputDone, dStdin, dTyped, dForwarder>>
    /\ UNCHANGED nonDisplayVars

\* Stop: stopOnce.Do. The first caller closes release and cancels the input
\* context; a caller that finds the Once done returns; one that finds it
\* running waits
StopEnter(c) ==
    /\ dStop[c] = "idle" /\ dOnce # "running"
    /\ IF dOnce = "done"
       THEN /\ dStop' = [dStop EXCEPT ![c] = "returned"]
            /\ UNCHANGED <<dOnce, dReleased, dInputCancelled>>
       ELSE /\ dStop' = [dStop EXCEPT ![c] = "wait input"]
            /\ dOnce' = "running"
            /\ dReleased' = TRUE /\ dInputCancelled' = TRUE
    /\ UNCHANGED <<dShellCancelled, dRouter, dInputDone, dStdin, dTyped, dForwarder,
                   dShell, dDone>>
    /\ UNCHANGED nonDisplayVars

\* Stop: <-d.inputDone, then d.cancel()
StopInputDone(c) ==
    /\ dStop[c] = "wait input" /\ dInputDone = 1
    /\ dInputDone' = 0 /\ dShellCancelled' = TRUE
    /\ dStop' = [dStop EXCEPT ![c] = "wait shell"]
    /\ UNCHANGED <<dOnce, dReleased, dInputCancelled, dRouter, dStdin, dTyped,
                   dForwarder, dShell, dDone>>
    /\ UNCHANGED nonDisplayVars

\* Stop: <-d.done, and the Once is done
StopShellDone(c) ==
    /\ dStop[c] = "wait shell" /\ dDone = 1
    /\ dDone' = 0 /\ dOnce' = "done"
    /\ dStop' = [dStop EXCEPT ![c] = "returned"]
    /\ UNCHANGED <<dReleased, dInputCancelled, dShellCancelled, dRouter, dInputDone,
                   dStdin, dTyped, dForwarder, dShell>>
    /\ UNCHANGED nonDisplayVars

(***************************************************************************)
(* The operator's interventions in one session and the operator log: the   *)
(* adapters startSessionTUI gives the input router, and the signal relay,  *)
(* which executeSession starts on the session handle itself.               *)
(***************************************************************************)
operatorEventHint == "hint"
operatorEventSoftStop == "soft_stop"

\* sessionExecution.softStop and submitHint, which softStopMu and inputMu
\* make one step each: the session afterwards and the error returned
softStop(sess, reason) ==
    IF sess.issued THEN [sess |-> sess, err |-> ""]
    ELSE IF sess.exited THEN [sess |-> sess, err |-> "tty closed"]
    ELSE [sess |-> [sess EXCEPT !.issued = TRUE, !.markers = @ + 1], err |-> ""]
submitHint(sess, text) ==
    IF TrimSpace(text) = <<>> THEN [sess |-> sess, err |-> ""]
    ELSE IF sess.exited THEN [sess |-> sess, err |-> "tty closed"]
    ELSE [sess |-> [sess EXCEPT !.hints = @ + 1], err |-> ""]

\* operatorLog.record
record(entries, kind, message) ==
    IF TrimSpace(message) = <<>> THEN entries
    ELSE Append(entries, [Kind |-> kind, Message |-> message])

\* sessionControlsAdapter.SoftStop and hintSubmitterAdapter.SubmitHint: the
\* session and the log afterwards
adapterSoftStop(sess, entries, reason) ==
    LET r == softStop(sess, reason) IN
    [sess |-> r.sess,
     log |-> IF r.err = "" THEN record(entries, operatorEventSoftStop, reason)
             ELSE entries]
adapterSubmitHint(sess, entries, text) ==
    LET trimmed == TrimSpace(text)
        r == submitHint(sess, trimmed) IN
    [sess |-> r.sess,
     log |-> IF trimmed # <<>> /\ r.err = ""
             THEN record(entries, operatorEventHint, trimmed) ELSE entries]

OperatorIdle ==
    /\ opSession = [issued |-> FALSE, exited |-> TRUE, markers |-> 0, hints |-> 0]
    /\ opLog = <<>> /\ opRelaySent = FALSE /\ opCount = 0

\* a running session with its TUI, newOperatorLog and the relay started
OperatorInit ==
    /\ opSession = [issued |-> FALSE, exited |-> FALSE, markers |-> 0, hints |-> 0]
    /\ opLog = <<>> /\ opRelaySent = FALSE /\ opCount = 0

\* the router's soft-stop hotkey: controls.SoftStop(reason) on the adapter
OpSoftStopHotkey ==
    /\ opCount < MaxOperatorRequests
    /\ \E r \in {adapterSoftStop(opSession, opLog, softStopReasonDefault)} :
        opSession' = r.sess /\ opLog' = r.log
    /\ opCount' = opCount + 1
    /\ UNCHANGED opRelaySent
    /\ UNCHANGED nonOperatorVars

\* the router's hint capture ends with a submission
OpSubmitHint ==
    /\ opCount < MaxOperatorRequests
    /\ \E text \in {<<"x">>, <<SP>>} :
        \E r \in {adapterSubmitHint(opSession, opLog, text)} :
            opSession' = r.sess /\ opLog' = r.log
    /\ opCount' = opCount + 1
    /\ UNCHANGED opRelaySent
    /\ UNCHANGED nonOperatorVars

\* signalRelay.handleSignal: its calls go to the session handle itself
OpSignal ==
    /\ opCount < MaxOperatorRequests
    /\ \E sig \in Signals :
        \E r \in {handleSignal(opRelaySent, sig, "nil")} :
            /\ opRelaySent' = r.sent
            /\ opSession' = IF r.calls = <<SoftStopCall(softStopReason)>>
                            THEN softStop(opSession, <<softStopReason>>).sess
                            ELSE opSession
    /\ opCount' = opCount + 1
    /\ UNCHANGED opLog
    /\ UNCHANGED nonOperatorVars

\* the agent process exits and finish clears the handle
OpSessionExits ==
    /\ ~opSession.exited
    /\ opSession' = [opSession EXCEPT !.exited = TRUE]
    /\ UNCHANGED <<opLog, opRelaySent, opCount>>
    /\ UNCHANGED nonOperatorVars

(***************************************************************************)
(* The log pane of the Shell (tui.logPane) and the Shell calls that reach  *)
(* it.                                                                     *)
(***************************************************************************)
defaultMaxLogs == 500

newLogPane(max) ==
    [maxLines |-> IF max <= 0 THEN defaultMaxLogs ELSE max,
     lines |-> <<>>, partial |-> <<>>, scroll |-> 0,
     paused |-> FALSE, pausedLen |-> 0, pausedPartial |-> <<>>]

\* every line and the partial line, as a pane that is not paused shows them
currentDataLive(p) ==
    IF p.partial # <<>> THEN Append(p.lines, p.partial) ELSE p.lines
\* the lines before the pause mark and the partial line of the pause, or every
\* line and the partial line
currentData(p) ==
    IF p.paused
    THEN LET limit == Min(Max(p.pausedLen, 0), Len(p.lines))
             data == Take(p.lines, limit) IN
         IF p.pausedPartial # <<>> THEN Append(data, p.pausedPartial) ELSE data
    ELSE IF p.partial # <<>> THEN Append(p.lines, p.partial) ELSE p.lines

bufferLength(p) ==
    IF p.paused
    THEN Min(Max(p.pausedLen, 0), Len(p.lines))
         + (IF p.pausedPartial # <<>> THEN 1 ELSE 0)
    ELSE Len(p.lines) + (IF p.partial # <<>> THEN 1 ELSE 0)

clampScroll(p) ==
    IF p.scroll < 0 THEN [p EXCEPT !.scroll = 0]
    ELSE LET total == bufferLength(p) IN
         IF total = 0 THEN [p EXCEPT !.scroll = 0]
         ELSE IF p.scroll > total - 1
              THEN [p EXCEPT !.scroll = Max(total - 1, 0)]
              ELSE p

\* the ring: a line beyond maxLines pushes the oldest line out
addLine(p, line) ==
    LET grown == Append(p.lines, line)
        kept == IF Len(grown) > p.maxLines
                THEN Drop(grown, Min(Len(grown) - p.maxLines, Len(grown)))
                ELSE grown
        q == [p EXCEPT !.lines = kept] IN
    clampScroll(IF q.paused /\ q.pausedLen > Len(kept)
                THEN [q EXCEPT !.pausedLen = Len(kept)]
                ELSE q)

RECURSIVE addLines(_, _)
addLines(p, ls) ==
    IF ls = <<>> THEN p ELSE addLines(addLine(p, Head(ls)), Tail(ls))

\* the text a chunk is split into: the partial line before it, the chunk with
\* its line ends normalised
chunkLines(p, chunk) ==
    Split(p.partial \o ReplaceAll(ReplaceAll(chunk, <<CR, LF>>, <<LF>>),
                                  <<CR>>, <<LF>>), LF)

append(p, chunk) ==
    IF chunk = <<>> THEN p
    ELSE LET ls == chunkLines(p, chunk) IN
         addLines([p EXCEPT !.partial = ls[Len(ls)]], Take(ls, Len(ls) - 1))

flushPartial(p) ==
    IF p.partial = <<>> THEN p
    ELSE [addLine(p, p.partial) EXCEPT !.partial = <<>>]

visible(p, height) ==
    IF height <= 0 THEN <<>>
    ELSE LET data == currentData(p) IN
         IF Len(data) = 0 THEN <<>>
         ELSE LET end == Max(Len(data) - p.scroll, 0)
                  start == Min(Max(end - height, 0), end) IN
              SubSeq(data, start + 1, end)

scrollBy(p, delta) ==
    IF delta = 0 THEN p ELSE clampScroll([p EXCEPT !.scroll = p.scroll + delta])

resetScroll(p) == [p EXCEPT !.scroll = 0]

setPaused(p, paused) ==
    IF p.paused = paused THEN p
    ELSE clampScroll(
            IF paused
            THEN [p EXCEPT !.paused = TRUE, !.pausedLen = Len(p.lines),
                           !.pausedPartial = p.partial]
            ELSE [p EXCEPT !.paused = FALSE, !.pausedLen = 0,
                           !.pausedPartial = <<>>])

setMax(p, max) ==
    LET q == [p EXCEPT !.maxLines = IF max <= 0 THEN defaultMaxLogs ELSE max]
        kept == IF Len(q.lines) > q.maxLines
                THEN Drop(q.lines, Len(q.lines) - q.maxLines) ELSE q.lines
        r == [q EXCEPT !.lines = kept] IN
    clampScroll(IF r.paused /\ r.pausedLen > Len(kept)
                THEN [r EXCEPT !.pausedLen = Len(kept)]
                ELSE r)

\* Shell.setPausedLocked: a resume snaps the pane to its bottom
setPausedLocked(p, target) ==
    LET q == setPaused(p, target) IN
    IF ~q.paused THEN resetScroll(q) ELSE q

\* the chunks of a LogChunk event: whole lines, a piece of a line, the end of
\* a line, two lines, a carriage return
PaneChunks ==
    {<<"a", LF>>, <<"b", LF>>, <<"a">>, <<CR, LF>>, <<"a", LF, "b", LF>>,
     <<"b", CR, "a">>}

PaneHeights == 1..(MaxPaneLines + 1)
ScrollDeltas == {-1, 1, MaxPaneLines + 1}

NoSnap == [pane |-> newLogPane(MaxPaneLines), fed |-> 0]

PaneIdle ==
    /\ pane = newLogPane(0) /\ paneOp = "idle" /\ paneFed = <<>>
    /\ paneSnap = NoSnap /\ paneCount = 0
    /\ paneText = <<>> /\ panePos = 0

\* NewShell with WithMaxLogs; paneFed is every line handed to addLine so far,
\* paneSnap the pane as the last pause left it and the lines fed by then
PaneInit ==
    /\ pane = newLogPane(MaxPaneLines) /\ paneOp = "" /\ paneFed = <<>>
    /\ paneSnap = NoSnap /\ paneCount = 0
    /\ paneText = <<>> /\ panePos = 0

\* the output of a session, which reaches the pane as the chunks of its
\* LogChunk events
PaneAlphabet == {"a", "b", CR, LF}
PaneSplitInit ==
    /\ pane = newLogPane(MaxPaneLines) /\ paneOp = "" /\ paneFed = <<>>
    /\ paneSnap = NoSnap /\ paneCount = 0
    /\ paneText \in StringsOver(PaneAlphabet, 1, MaxPaneText)
    /\ panePos = 0

\* Shell.HandleEvent of the LogChunk event that carries the next piece
PaneLogPiece ==
    /\ panePos < Len(paneText)
    /\ \E n \in 1..(Len(paneText) - panePos) :
        LET chunk == SubSeq(paneText, panePos + 1, panePos + n) IN
        /\ pane' = append(pane, chunk)
        /\ paneFed' = paneFed \o
              Take(chunkLines(pane, chunk), Len(chunkLines(pane, chunk)) - 1)
        /\ panePos' = panePos + n
    /\ paneOp' = "append"
    /\ UNCHANGED <<paneSnap, paneCount, paneText, nonPaneVars>>

\* Shell.HandleEvent of a LogChunk event
PaneLogChunk ==
    /\ paneCount < MaxPaneAppends
    /\ \E chunk \in PaneChunks :
        /\ pane' = append(pane, chunk)
        /\ paneFed' = paneFed \o
              Take(chunkLines(pane, chunk), Len(chunkLines(pane, chunk)) - 1)
    /\ paneOp' = "append"
    /\ paneCount' = paneCount + 1
    /\ UNCHANGED <<paneSnap, paneText, panePos, nonPaneVars>>

\* Shell.HandleEvent of an Exit event, Shell.flushPending
PaneFlush ==
    /\ paneCount < MaxPaneAppends
    /\ pane' = flushPartial(pane)
    /\ paneFed' = IF pane.partial = <<>> THEN paneFed
                  ELSE Append(paneFed, pane.partial)
    /\ paneOp' = "flush"
    /\ paneCount' = paneCount + 1
    /\ UNCHANGED <<paneSnap, paneText, panePos, nonPaneVars>>

\* Shell.Scroll
PaneScroll ==
    /\ \E delta \in ScrollDeltas : pane' = scrollBy(pane, delta)
    /\ paneOp' = "scroll"
    /\ UNCHANGED <<paneFed, paneSnap, paneCount, paneText, panePos, nonPaneVars>>

\* Shell.TogglePause
PaneTogglePause ==
    /\ pane' = setPausedLocked(pane, ~pane.paused)
    /\ paneOp' = IF pane.paused THEN "resume" ELSE "pause"
    /\ paneSnap' = IF pane.paused THEN NoSnap
                   ELSE [pane |-> pane', fed |-> Len(paneFed)]
    /\ UNCHANGED <<paneFed, paneCount, paneText, panePos, nonPaneVars>>

\* WithMaxLogs applied to the pane
PaneSetMax ==
    /\ paneCount < MaxPaneAppends
    /\ \E max \in 1..MaxPaneLines :
        /\ max # pane.maxLines
        /\ pane' = setMax(pane, max)
    /\ paneOp' = "setMax"
    /\ paneCount' = paneCount + 1
    /\ UNCHANGED <<paneFed, paneSnap, paneText, panePos, nonPaneVars>>

UiIdle ==
    ShellIdle /\ ExecIdle /\ RouterIdle /\ PaneIdle /\ InputIdle /\ DisplayIdle /\ OperatorIdle

RestIdle == RelayIdle /\ LoadIdle /\ UiIdle

(***************************************************************************)
(* Specifications                                                          *)
(***************************************************************************)
InitRedact == RedactInit /\ StreamIdle /\ ParserIdle /\ SessionIdle /\ LedgerIdle /\ OrchIdle /\ RestIdle
NextRedact == RedactOnce \/ RedactAgain
SpecRedact == InitRedact /\ [][NextRedact]_vars

InitStream == StreamInit /\ RedactIdle /\ ParserIdle /\ SessionIdle /\ LedgerIdle /\ OrchIdle /\ RestIdle
NextStream == StreamWrite
SpecStream == InitStream /\ [][NextStream]_vars

InitParser == ParserInit /\ RedactIdle /\ StreamIdle /\ SessionIdle /\ LedgerIdle /\ OrchIdle /\ RestIdle
NextParser == ParserFeed \/ ParserFinalize
SpecParser == InitParser /\ [][NextParser]_vars

\* the parser fed any stream, a defective report included
InitParserAny == ParserInitAny /\ RedactIdle /\ StreamIdle /\ SessionIdle /\ LedgerIdle /\ OrchIdle /\ RestIdle
NextParserAny == ParserFeed \/ ParserFinalize
SpecParserAny == InitParserAny /\ [][NextParserAny]_vars

\* a Sentinel given the events of a session
InitSentinel == SentinelInit /\ RedactIdle /\ StreamIdle /\ SessionIdle /\ LedgerIdle /\ OrchIdle /\ RestIdle
NextSentinel == SentinelConsumeChunk \/ SentinelConsumeOther \/ SentinelFinalizeCall
SpecSentinel == InitSentinel /\ [][NextSentinel]_vars

\* a session with operator controls
InitSession ==
    SessionInit(MaxChunks) /\ RedactIdle /\ StreamIdle /\ ParserIdle /\ LedgerIdle /\ OrchIdle /\ RestIdle
SessionCore ==
    \/ StartOK \/ StartFail \/ CopyChunk \/ CopierEnd \/ ProcExit
    \/ WaitReturn \/ WaitStream \/ WaitFinish \/ WaitEmitFirst \/ WaitEmitExited
    \/ WaitEmitExit \/ WaitClose \/ Recv
SessionControls ==
    \E c \in Callers :
        \/ SoftStopEnter(c) \/ SoftStopWrite(c) \/ SoftStopEmit(c)
        \/ AbortEnter(c) \/ AbortSignal(c) \/ AbortEmit(c)
NextSession == SessionCore \/ SessionControls
SpecSession == InitSession /\ [][NextSession]_vars

\* a session with operator controls whose child prints nothing
InitControls ==
    SessionInit(0) /\ RedactIdle /\ StreamIdle /\ ParserIdle /\ LedgerIdle /\ OrchIdle /\ RestIdle
QuietCore ==
    \/ StartOK \/ StartFail \/ CopierEnd \/ ProcExit
    \/ WaitReturn \/ WaitStream \/ WaitFinish \/ WaitEmitFirst \/ WaitEmitExited
    \/ WaitEmitExit \/ WaitClose \/ Recv
NextControls == QuietCore \/ SessionControls
SpecControls == InitControls /\ [][NextControls]_vars

\* a session left alone by the operator whose output can fill the event buffer
InitBackpressure ==
    SessionInit(eventBufferSize) /\ RedactIdle /\ StreamIdle /\ ParserIdle /\ LedgerIdle /\ OrchIdle /\ RestIdle
NextBackpressure == SessionCore
SpecBackpressure == InitBackpressure /\ [][NextBackpressure]_vars

\* two appendLedgerEntry calls on one path, one after the other
LedgerSteps ==
    \E w \in Writers :
        \/ EnsureLoad(w) \/ NeedsUpgrade(w) \/ UpgradeRead(w) \/ UpgradeWriteTemp(w)
        \/ UpgradeRename(w) \/ EnsureStore(w) \/ AppendOpen(w) \/ AppendWrite(w)
OtherIdle == RedactIdle /\ StreamIdle /\ ParserIdle /\ SessionIdle
InitLedger == LedgerInit("sequential") /\ OtherIdle /\ OrchIdle /\ RestIdle
NextLedger == LedgerSteps
SpecLedger == InitLedger /\ [][NextLedger]_vars

\* two appendLedgerEntry calls on one path, running concurrently
InitLedgerRace == LedgerInit("concurrent") /\ OtherIdle /\ OrchIdle /\ RestIdle
NextLedgerRace == LedgerSteps
SpecLedgerRace == InitLedgerRace /\ [][NextLedgerRace]_vars

\* upgradeLedgerFile called twice on a legacy file
InitUpgrade == UpgradeInit /\ OtherIdle /\ OrchIdle /\ RestIdle
NextUpgrade ==
    \E w \in Writers :
        \/ UpgradeRead(w) \/ UpgradeWriteTemp(w) \/ UpgradeRename(w)
        \/ UpgradeCallAgain(w)
SpecUpgrade == InitUpgrade /\ [][NextUpgrade]_vars


\* the epic loop: work sessions while the tracker reports ready work, then
\* the summarizer
InitOrch == OrchInit("reports") /\ OtherIdle /\ RestIdle
NextOrch == Preflight \/ RunSession \/ Summarize
SpecOrch == InitOrch /\ [][NextOrch]_vars

\* one session from the Agent's output to the ledger: the copier, then
\* executeSession on what the stream writer buffered
InitPipeline ==
    /\ OrchInit("pipeline") /\ PipelineInit
    /\ RedactIdle /\ ParserIdle /\ SessionIdle /\ RestIdle
NextPipeline == Preflight \/ CopyOutput \/ RunSession
SpecPipeline == InitPipeline /\ [][NextPipeline]_vars

\* one relay handed any sequence of signals
CoreIdle == OtherIdle /\ LedgerIdle /\ OrchIdle
InitRelay == RelayInit /\ CoreIdle /\ LoadIdle /\ UiIdle
NextRelay == RelaySignal
SpecRelay == InitRelay /\ [][NextRelay]_vars

\* the relay goroutine beside the run that stops it
InitRelayRun == RelayRunInit /\ CoreIdle /\ LoadIdle /\ UiIdle
NextRelayRun == SignalArrives \/ RelayReceive \/ RelayReturn \/ StopRelay \/ CloseSignals
SpecRelayRun == InitRelayRun /\ [][NextRelayRun]_vars

\* completedBeadsFromLedger called once on a ledger file
InitLoad == LoadInit /\ CoreIdle /\ RelayIdle /\ UiIdle
NextLoad == LoadCompleted
SpecLoad == InitLoad /\ [][NextLoad]_vars

\* the summarizer's reading of the ledger
InitSummaryLoad == SummaryLoadInit /\ CoreIdle /\ RelayIdle /\ UiIdle
NextSummaryLoad == SummaryLoad \/ SummaryChunk
SpecSummaryLoad == InitSummaryLoad /\ [][NextSummaryLoad]_vars

\* runGo for an epic or for the loose issues, with and without --resume,
\* against a tracker whose ready list varies
InitEpic == OrchInit("tracker") /\ OtherIdle /\ RestIdle
NextEpic == EnableResume \/ Preflight \/ RunSession \/ Summarize
SpecEpic == InitEpic /\ [][NextEpic]_vars

\* the epic loop under every [summary] table of the configuration
InitSummary == OrchInit("summary") /\ OtherIdle /\ RestIdle
NextSummary == Preflight \/ RunSession \/ Summarize
SpecSummary == InitSummary /\ [][NextSummary]_vars

\* one Shell.Run on a terminal, with a caller that may cancel and ask for
\* renders
BackIdle == CoreIdle /\ RelayIdle /\ LoadIdle
InitShell == ShellInit /\ BackIdle /\ ExecIdle /\ RouterIdle /\ PaneIdle /\ InputIdle /\ DisplayIdle /\ OperatorIdle
NextShell ==
    \/ ShellEnter \/ ShellCtxDone \/ ShellRenderTick \/ ShellEvent
    \/ ShellEventsClosed \/ CancelContext \/ RequestRender
SpecShell == InitShell /\ [][NextShell]_vars

\* one executeSession and the child it launches
InitExec == ExecInit /\ BackIdle /\ ShellIdle /\ RouterIdle /\ PaneIdle /\ InputIdle /\ DisplayIdle /\ OperatorIdle
NextExec ==
    \/ ExecConfirm \/ ExecOpenTranscript \/ ExecStart \/ ExecStartTUI
    \/ ExecWait \/ ExecReport \/ ExecDeferred \/ ChildOutput \/ ChildExit
SpecExec == InitExec /\ [][NextExec]_vars

\* one InputRouter fed the operator's keys
InitRouter == RouterInit /\ BackIdle /\ ShellIdle /\ ExecIdle /\ PaneIdle /\ InputIdle /\ DisplayIdle /\ OperatorIdle
NextRouter == RouterByte
SpecRouter == InitRouter /\ [][NextRouter]_vars

\* the log pane of one Shell under chunks, flushes, scrolling and pause
InitPane == PaneInit /\ BackIdle /\ ShellIdle /\ ExecIdle /\ RouterIdle /\ InputIdle /\ DisplayIdle /\ OperatorIdle
NextPane == PaneLogChunk \/ PaneFlush \/ PaneScroll \/ PaneTogglePause
SpecPane == InitPane /\ [][NextPane]_vars

\* the display of an exited session and the callers of Stop; the goroutines
\* and the callers inside Stop keep running, the operator need not type
InitDisplay ==
    /\ DisplayInit /\ BackIdle /\ ShellIdle /\ ExecIdle /\ RouterIdle /\ PaneIdle
    /\ InputIdle /\ OperatorIdle
NextDisplay ==
    \/ OperatorTypes \/ RouterSelect \/ RouterRead \/ ForwarderEnd \/ ShellRunEnds
    \/ \E c \in Callers : StopEnter(c) \/ StopInputDone(c) \/ StopShellDone(c)
SpecDisplay == InitDisplay /\ [][NextDisplay]_vars
SpecDisplayLive ==
    /\ SpecDisplay
    /\ WF_vars(RouterSelect) /\ WF_vars(RouterRead)
    /\ WF_vars(ForwarderEnd) /\ WF_vars(ShellRunEnds)
    /\ \A c \in Callers : WF_vars(StopEnter(c) \/ StopInputDone(c) \/ StopShellDone(c))

\* the operator's interventions in one session
InitOperator ==
    /\ OperatorInit /\ BackIdle /\ ShellIdle /\ ExecIdle /\ RouterIdle /\ PaneIdle
    /\ InputIdle /\ DisplayIdle
NextOperator == OpSoftStopHotkey \/ OpSubmitHint \/ OpSignal \/ OpSessionExits
SpecOperator == InitOperator /\ [][NextOperator]_vars

\* the pane given one text in pieces
InitPaneSplit == PaneSplitInit /\ BackIdle /\ ShellIdle /\ ExecIdle /\ RouterIdle /\ InputIdle /\ DisplayIdle /\ OperatorIdle
NextPaneSplit == PaneLogPiece
SpecPaneSplit == InitPaneSplit /\ [][NextPaneSplit]_vars

\* the pane under every operation it has
NextPaneOps == NextPane \/ PaneSetMax
SpecPaneOps == InitPane /\ [][NextPaneOps]_vars

\* SoftStop, SubmitHint and WriteInput called concurrently on one session
InitInput == InputInit /\ BackIdle /\ ShellIdle /\ ExecIdle /\ RouterIdle /\ PaneIdle /\ DisplayIdle /\ OperatorIdle
NextInput == \E c \in InputCallers : InputLock(c) \/ InputWritten(c) \/ InputReturn(c)
SpecInput == InitInput /\ [][NextInput]_vars

(***************************************************************************)
(* Claims                                                                  *)
(***************************************************************************)

\* C1: feeding a well-formed stream in any chunks and then calling Finalize
\* returns what feeding it as one chunk returns.
ChunkingIndependence ==
    pPc = "finalized" => pOutcome = OneShot(SampleID, pText)

\* C4: neither the cumulative buffer nor the tee ever contains a configured
\* secret, and the live stream holds the bytes verbatim.
RedactedOutputsNeverLeak ==
    /\ ~ContainsAnySecret(wBuilder, wSecrets)
    /\ ~ContainsAnySecret(wTee, wSecrets)
    /\ wLive = Take(wStream, wPos)

\* C10: redact(redact(T, S), S) = redact(T, S).
RedactIdempotent ==
    rPc = "twice" => rOut2 = rOut


\* C2: the events sent on the channel of a started session form a prefix of
\* (Starting)? Running LogChunk* (Stopping)? Exited Exit, and the whole of it
\* once the channel is closed.
EventOrdering ==
    LET q == LifecycleRun(0, Kinds(ev.sent)) IN
    /\ q # -1
    /\ (sState = "started" /\ ev.closed) => q = 5

\* C3: when the channel of a launched session is closed, exactly one Exit was
\* placed on it, as the last event, and nothing but LogChunk events was dropped.
ExitDeliveredOnce ==
    (sState = "started" /\ ev.closed) =>
        /\ CountKind(ev.sent, "Exit") = 1
        /\ ev.sent[Len(ev.sent)].kind = "Exit"
        /\ ev.dropped \subseteq {"LogChunk"}

AllReturned == \A w \in Writers : writer[w].pc = "returned"
NoWriterFailed == \A w \in Writers : writer[w].err = ""
IsRecord(line) == line.kind = "json"
Records(lines) == SelectSeq(lines, IsRecord)
\* an entry compared without its schema_version
Unversioned(entry) == [entry EXCEPT !.SchemaVersion = <<>>]

\* C8: after two successful appends e1 then e2, reading the file back gives
\* the records that were there, in their order and unchanged but for the
\* schema version, then e1, then e2, both at the current schema version; the
\* lines of a file that was at the current schema are left as they were.
LedgerAppendOrder ==
    (lMode = "sequential" /\ AllReturned /\ NoWriterFailed) =>
        LET old == ledgerLines(lInitial)
            before == ledgerEntriesForEpic(old, <<>>)
            got == ledgerEntriesForEpic(ledgerLines(store), <<>>)
            n == Len(before) IN
        /\ Len(got) = n + 2
        /\ got[n + 1] = stampEntry(writer[1].entry)
        /\ got[n + 2] = stampEntry(writer[2].entry)
        /\ got[n + 1].SchemaVersion = ledgerSchemaVersion
        /\ got[n + 2].SchemaVersion = ledgerSchemaVersion
        /\ \A i \in 1..n : Unversioned(got[i]) = Unversioned(before[i])
        /\ ~ledgerNeedsUpgrade(old) => Take(ledgerLines(store), Len(old)) = old

\* two different entries were appended in turn to a legacy file that held
\* a blank line and at least two records
LedgerAppendOrderWitness ==
    /\ lMode = "sequential" /\ AllReturned /\ NoWriterFailed
    /\ writer[1].entry # writer[2].entry
    /\ ledgerNeedsUpgrade(ledgerLines(lInitial))
    /\ Len(Records(ledgerLines(lInitial))) >= 2
    /\ Len(Records(ledgerLines(lInitial))) < Len(ledgerLines(lInitial))

\* C7: when two concurrent appendLedgerEntry calls have returned, both
\* succeeded, both records are in the file on lines of their own, and every
\* record that was in the file is still there.
ConcurrentWritersBothRecorded ==
    (lMode = "concurrent" /\ AllReturned) =>
        LET before == ledgerEntriesForEpic(ledgerLines(lInitial), <<>>)
            got == ledgerEntriesForEpic(ledgerLines(store), <<>>) IN
        /\ NoWriterFailed
        /\ Len(got) = Len(before) + Cardinality(Writers)
        /\ \A w \in Writers :
            \E i \in 1..Len(got) : got[i] = stampEntry(writer[w].entry)
        /\ \A i \in 1..Len(before) :
            \E j \in 1..Len(got) : Unversioned(got[j]) = Unversioned(before[i])

\* C9: upgrading a legacy file twice leaves the file the first upgrade left;
\* the upgraded file holds the records of the legacy file in their order,
\* with no blank line, each at the current schema version and with every
\* other key and value as it was.
UpgradeIdempotent ==
    /\ Len(lSnap) = 2 => lSnap[2] = lSnap[1]
    /\ Len(lSnap) >= 1 =>
        LET up == lSnap[1]
            recs == Records(ledgerLines(lInitial)) IN
        /\ Len(up) = Len(recs)
        /\ ~ledgerNeedsUpgrade(up)
        /\ \A i \in 1..Len(up) :
            /\ up[i].kind = "json"
            /\ "schema_version" \in DOMAIN up[i].obj
            /\ up[i].obj["schema_version"] = ledgerSchemaVersion
            /\ DOMAIN up[i].obj \ {"schema_version"}
                    = DOMAIN recs[i].obj \ {"schema_version"}
            /\ \A k \in DOMAIN recs[i].obj \ {"schema_version"} :
                up[i].obj[k] = recs[i].obj[k]

\* a legacy file with a blank line and two records was upgraded twice
UpgradeIdempotentWitness ==
    /\ Len(lSnap) = 2
    /\ Len(Records(ledgerLines(lInitial))) >= 2
    /\ Len(Records(ledgerLines(lInitial))) < Len(ledgerLines(lInitial))

\* the cross-check of one executeSession call, from the two parses it made
StatusAgree(run) == EqualFold(run.fenced.res.Status, run.footer.res.Status)
BodyAgree(run) ==
    normalizeMultiline(run.fenced.res.Details)
        = normalizeMultiline(run.footer.res.CommitMsg)
EscalationAgree(run) ==
    TrimSpace(run.fenced.res.Escalation) = TrimSpace(run.footer.res.Escalation)

\* the session was launched and then Wait failed, a parse failed, or the
\* two reports disagree
Corrupt(run) ==
    /\ run.pre = "ok"
    /\ \/ run.waitErr
       \/ run.fenced.err # "ok"
       \/ run.footer.err # "ok"
       \/ ~StatusAgree(run) \/ ~BodyAgree(run) \/ ~EscalationAgree(run)

\* the commit body with the trailing whitespace of each line, and of the
\* body, left out
TrailingTrimmed(body) ==
    TrimRight(Join(trimRightEach(Split(body, LF)), LF), {SP, TAB, LF, CR})
BodyAgreeAsStated(run) ==
    TrailingTrimmed(run.fenced.res.Details) = TrailingTrimmed(run.footer.res.CommitMsg)
CorruptAsStated(run) ==
    /\ run.pre = "ok"
    /\ \/ run.waitErr
       \/ run.fenced.err # "ok"
       \/ run.footer.err # "ok"
       \/ ~StatusAgree(run) \/ ~BodyAgreeAsStated(run) \/ ~EscalationAgree(run)

\* C5 as stated: an executeSession call returns an error and leaves the
\* ledger file as it found it whenever Wait fails, a report fails to parse,
\* or the two reports disagree on status, on commit body (trailing whitespace
\* of each line ignored) or on escalation (trimmed).
NoLedgerEntryForStatedMismatch ==
    \A i \in DOMAIN runs :
        CorruptAsStated(runs[i]) => runs[i].after = runs[i].before /\ runs[i].err # ""

\* C5: an executeSession call whose session is corrupt returns an error and
\* leaves the ledger file as it found it: unchanged, or not created.  The
\* commit bodies are compared as normalizeMultiline leaves them: without the
\* whitespace around the body and the trailing blanks of each line.
NoLedgerEntryForCorruptSession ==
    \A i \in DOMAIN runs :
        Corrupt(runs[i]) => runs[i].after = runs[i].before /\ runs[i].err # ""

\* the second session of a loop, whose two reports parse and agree on the
\* status but not on the commit body, with a ledger that holds records
NoLedgerEntryForCorruptSessionWitness ==
    /\ Len(runs) = 2
    /\ runs[2].fenced.err = "ok" /\ runs[2].footer.err = "ok"
    /\ StatusAgree(runs[2]) /\ ~BodyAgree(runs[2])
    /\ runs[2].before.exists /\ Len(runs[2].before.lines) >= 2

\* a well-formed fenced report of status needs_help that the footer agrees with
HelpAgreed(run) ==
    /\ run.pre = "ok" /\ ~run.waitErr
    /\ run.fenced.err = "ok" /\ run.footer.err = "ok"
    /\ run.fenced.res.Status = StatusFailure
    /\ StatusAgree(run) /\ BodyAgree(run) /\ EscalationAgree(run)

\* C6: an executeSession call that ends with an agreed needs_help report
\* appends one entry of status needs_help with the trimmed, redacted
\* escalation, returns an error, and is the last session of the loop.
NeedsHelpRecordedThenFatal ==
    \A i \in DOMAIN runs :
        HelpAgreed(runs[i]) =>
            LET before == ledgerEntriesForEpic(runs[i].before.lines, <<>>)
                after == ledgerEntriesForEpic(runs[i].after.lines, <<>>) IN
            /\ Len(after) = Len(before) + 1
            /\ after[Len(after)].Status = StatusFailure
            /\ after[Len(after)].Escalation =
                    TrimSpace(redactText(TrimSpace(runs[i].fenced.res.Escalation),
                                         runs[i].secrets).text)
            /\ runs[i].err # ""
            /\ i = Len(runs)

\* C11: the text redact returns contains none of the secrets it was given.
RedactionComplete ==
    rPc \in {"once", "twice"} => ~ContainsAnySecret(rOut, rSecrets)

\* C12: the soft-stop marker is written to the PTY at most once per session,
\* and a SoftStop call that begins after one has succeeded writes nothing
\* and returns nil.
SoftStopIssuedOnce ==
    /\ [](markerWrites <= 1)
    /\ [][\A c \in Callers :
            (softStopIssued /\ ssPc[c] = "idle" /\ ssPc'[c] # "idle") =>
                /\ ssPc'[c] = "done" /\ ssRet'[c] = "noop"
                /\ markerWrites' = markerWrites]_vars

\* one SoftStop call wrote the marker and a later one returned nil at once
SoftStopIssuedOnceWitness ==
    /\ markerWrites = 1
    /\ \E c, d \in Callers : ssRet[c] = "ok" /\ ssRet[d] = "noop"

\* C13: the child is sent the interrupt at most once per session, and at
\* most one Abort call emits the Stopping transition.
AbortOnce ==
    /\ signalsSent <= 1
    /\ Cardinality({c \in Callers : abPc[c] = "emit" \/ abRet[c] = "ok"}) <= 1

\* two Abort calls have returned: one signalled the child, the other found
\* the Once spent
AbortOnceWitness ==
    /\ signalsSent = 1
    /\ \E c, d \in Callers : abRet[c] = "ok" /\ abRet[d] = "noop"

\* the call signal number i of the relay's history has to produce
RelayExpectedCall(i) ==
    IF relaySignals[i].sig = "interrupt"
         /\ \A j \in 1..(i - 1) : relaySignals[j].sig # "interrupt"
    THEN SoftStopCall("Operator pressed Ctrl+C")
    ELSE AbortCall

RelayFailureLine(i) ==
    IF RelayExpectedCall(i).op = "SoftStop" THEN "Soft stop failed" ELSE "Abort failed"

RelayFailures ==
    SelectSeq(relayOut, LAMBDA l : l \in {"Soft stop failed", "Abort failed"})

RelayAnsweredErrors ==
    SelectSeq([i \in 1..Len(relaySignals) |->
                  [line |-> RelayFailureLine(i), answer |-> relaySignals[i].answer]],
              LAMBDA x : x.answer = "error")

\* C14: each signal handled by the relay makes one call on the session: the
\* first interrupt SoftStop with the reason "Operator pressed Ctrl+C", every
\* later interrupt and every terminate or hangup Abort, whatever the earlier
\* calls answered; each error answered is logged, in order.
RelayMapping ==
    /\ Len(ctrlCalls) = Len(relaySignals)
    /\ \A i \in 1..Len(relaySignals) : ctrlCalls[i] = RelayExpectedCall(i)
    /\ RelayFailures = [i \in 1..Len(RelayAnsweredErrors) |-> RelayAnsweredErrors[i].line]

\* a first interrupt whose SoftStop failed, then another interrupt and a
\* terminate
RelayMappingWitness ==
    /\ Len(relaySignals) >= 3
    /\ relaySignals[1] = [sig |-> "interrupt", answer |-> "error"]
    /\ relaySignals[2].sig = "interrupt"
    /\ relaySignals[3].sig = "terminate"

\* the records of the file whose epic_id equals the epic ignoring case, in
\* file order
CbConsidered ==
    SelectSeq([i \in 1..Len(cbFile.lines) |-> unmarshalEntry(cbFile.lines[i].obj)],
              LAMBDA e : ToLower(e.EpicID) = ToLower(cbEpic))

CbMustFail ==
    \E i \in 1..Len(CbConsidered) :
        \/ CbConsidered[i].Status = StatusFailure
        \/ CbConsidered[i].Status = <<>>
        \/ CbConsidered[i].Status \notin {StatusSuccess, StatusFailure}
        \/ CbConsidered[i].Status = StatusSuccess /\ CbConsidered[i].BeadID = <<>>

\* the bead ids of the considered success records, each with its position
CbSuccessBeads ==
    [i \in 1..Len(SelectSeq(CbConsidered, LAMBDA e : e.Status = StatusSuccess)) |->
        [at |-> i,
         bead |-> SelectSeq(CbConsidered, LAMBDA e : e.Status = StatusSuccess)[i].BeadID]]

CbFirstSeen ==
    SelectSeq(CbSuccessBeads,
              LAMBDA x : \A j \in 1..(x.at - 1) :
                            ToLower(CbSuccessBeads[j].bead) # ToLower(x.bead))

ResumeSetInvariant ==
    /\ \A i, j \in 1..Len(resumeCompletedBeads) :
          i # j => ToLower(resumeCompletedBeads[i]) # ToLower(resumeCompletedBeads[j])
    /\ resumeCompletedBeads # <<>> => ~isLoosePlan(oPlan)

\* the ids of the ready issues fetched last that are not epics and begin
\* with the epic id and a dot
ReadyBeadIDs(plan, fetched) ==
    {fetched.issues[i].ID : i \in
        {k \in 1..Len(fetched.issues) :
            /\ ToLower(fetched.issues[k].IssueType) # <<"e","p","i","c">>
            /\ HasPrefix(fetched.issues[k].ID, plan.EpicID \o <<".">>)}}

InResumeSet(id) ==
    \E i \in 1..Len(resumeCompletedBeads) :
        ToLower(resumeCompletedBeads[i]) = ToLower(id)

ResumedRuns ==
    {j \in 1..Len(runs) : runs[j].kind = "work" /\ runs[j].plan.ResumeEnabled}

ListedInPrompt(prompt, id) ==
    \E l \in 1..Len(prompt.lines) : prompt.lines[l] = <<"-", SP>> \o id

\* C18: a work session of a resumed run is launched only when a ready bead
\* of the epic is outside the resume set, and its prompt lists every id the
\* resume set holds at the launch, the ids of the earlier sessions of the
\* run among them.
ResumeSkipsFinishedWork ==
    \A j \in ResumedRuns :
        /\ \E id \in ReadyBeadIDs(runs[j].plan, runs[j].ready) :
              \A i \in 1..Len(runs[j].resumeSet) :
                  ToLower(runs[j].resumeSet[i]) # ToLower(id)
        /\ \A i \in 1..Len(runs[j].resumeSet) :
              ListedInPrompt(runs[j].prompt, runs[j].resumeSet[i])
        /\ \A k \in 1..(j - 1) :
              TrimSpace(runs[k].outcome.BeadID) # <<>> =>
                  ListedInPrompt(runs[j].prompt, TrimSpace(runs[k].outcome.BeadID))

\* the second session of a resumed run, launched with the first session's
\* bead and the ledger's bead in its prompt
ResumeSkipsFinishedWorkWitness ==
    /\ Len(runs) = 2 /\ ResumedRuns = {1, 2}
    /\ Len(runs[1].resumeSet) = 1
    /\ runs[1].outcome.BeadID = BeadLineTwo
    /\ ListedInPrompt(runs[2].prompt, BeadLine)
    /\ ListedInPrompt(runs[2].prompt, BeadLineTwo)

IsPrefixOf(a, b) == Len(a) <= Len(b) /\ SubSeq(b, 1, Len(a)) = a

\* C19: a work session that returned an error is the last session of the
\* run, and the run has returned that error; every session found the ledger
\* as the session before it left it, kept the lines of the earlier sessions
\* as they were and added at most one line, its own, at the end.
LoopStopsAtFirstError ==
    /\ \A j \in 1..Len(runs) :
          (runs[j].kind = "work" /\ runs[j].err # "") =>
              j = Len(runs) /\ oPc = "returned" /\ oErr = runs[j].err
    /\ \A j \in 2..Len(runs) :
          /\ runs[j].before = runs[j - 1].after
          /\ IsPrefixOf(runs[j].before.lines, runs[j].after.lines)
    /\ \A j \in 1..Len(runs) :
          /\ Len(Records(runs[j].after.lines)) - Len(Records(runs[j].before.lines))
                \in {0, 1}
          /\ runs[j].after # runs[j].before =>
                unmarshalEntry(runs[j].after.lines[Len(runs[j].after.lines)].obj).SessionID
                    = SessionIDOf(j - 1)
    /\ Len(runs) > 0 => FileOf(store) = runs[Len(runs)].after

\* the second session of a run returned an error after its entry was
\* appended behind the entry of the first
LoopStopsAtFirstErrorWitness ==
    /\ Len(runs) = 2 /\ runs[1].err = "" /\ runs[2].kind = "work" /\ runs[2].err # ""
    /\ oPc = "returned"
    /\ Len(runs[1].after.lines) = Len(runs[1].before.lines) + 1
    /\ Len(runs[2].after.lines) = Len(runs[2].before.lines) + 1

\* a record of the ledger whose epic_id is the epic's, ignoring case, and
\* whose status is needs_help
Escalated(s, epicID) ==
    \E i \in 1..Len(ledgerLines(s)) :
        /\ ledgerLines(s)[i].kind = "json"
        /\ ToLower(unmarshalEntry(ledgerLines(s)[i].obj).EpicID) = ToLower(epicID)
        /\ unmarshalEntry(ledgerLines(s)[i].obj).Status = StatusFailure

\* C20: when the ledger holds a needs_help record of the epic, written by
\* this run or by an earlier one, maybeRunSummarizer starts no session and
\* returns an error.
NoSummaryOverEscalatedEpic ==
    [][(oPc = "summarize" /\ oPc' # "summarize" /\ Escalated(store, oPlan.EpicID)) =>
            /\ runs' = runs /\ store' = store
            /\ oErr' = "resolve blockers before running the omnibus summary"]_vars

\* the summarizer refused: the ledger the run started with held a needs_help
\* record of the epic, and a work session of this run succeeded
NoSummaryOverEscalatedEpicWitness ==
    /\ oPc = "returned" /\ sessionCount >= 1
    /\ oErr = "resolve blockers before running the omnibus summary"
    /\ Escalated(lInitial, oPlan.EpicID)
    /\ \A j \in 1..Len(runs) : runs[j].kind = "work"

\* C21: the summarization session is run only if the configured max_commits
\* is greater than 0 and the configured summarizer prompt is non-empty; with
\* max_commits <= 0 or an empty prompt the loop ends without a summarization
\* session and without an omnibus ledger entry.
SummarizerGatedByConfig ==
    (oSummary.MaxCommits <= 0 \/ TrimSpace(oSummary.Prompt) = <<>>) =>
        /\ \A i \in DOMAIN runs : runs[i].kind # "summary"
        /\ \A i \in DOMAIN ledgerLines(store) :
                ledgerLines(store)[i].kind = "json" =>
                    jsonGet(ledgerLines(store)[i].obj, "bead_id", <<>>)
                        # SummaryPlan.BeadIDOverride

\* C22: in one run of the epic loop the summarization session is started at
\* most once; the loop turns to the summarizer only after a work session
\* returned success and the tracker, asked again, listed no ready bead with
\* the prefix `<epic_id>.`; while the tracker lists such a bead the loop
\* launches another work session or ends with an error, it does not
\* summarize.
SummarizeOnceWhenExhausted ==
    /\ [](Cardinality({i \in DOMAIN runs : runs[i].kind = "summary"}) <= 1)
    /\ [][(oPc # "summarize" /\ oPc' = "summarize") =>
            /\ sessionCount >= 1
            /\ \E i \in DOMAIN runs :
                    /\ runs[i].kind = "work" /\ runs[i].err = ""
                    /\ runs[i].outcome.Status = StatusSuccess
            /\ oReady'.err = ""
            /\ ReadyBeadIDs(oPlan, oReady') = {}]_vars
    /\ [][(oPc = "preflight" /\ oPc' # "preflight" /\ sessionCount >= 1
            /\ oReady'.err = "" /\ ReadyBeadIDs(oPlan, oReady') # {}) =>
            (oPc' = "session" \/ oErr' # "")]_vars

\* C23: a Run that entered raw mode has, when it returns, called restore
\* exactly once, with the attributes it saved, and written the show-cursor
\* sequence exactly once, as its last write, whichever way it left the loop
\* (context cancelled, events closed, render error); the terminal then has
\* the saved attributes unless the restoring ioctl itself failed, and
\* nothing is restored before the return.  A Run that could not enter raw
\* mode returns the error and leaves the terminal as it was.
TerminalRestored ==
    /\ shPc = "returned" =>
          IF shState # "nil"
          THEN /\ Len(term.restored) = 1
               /\ term.restored[1].state = CookedTerminal.attrs
               /\ term.restored[1].ioctl = "ok" => term.attrs = CookedTerminal.attrs
               /\ term.ansi = <<HideCursor, ShowCursorReset>>
               /\ term.cursor = "shown"
          ELSE /\ shErr \in {"events channel is required", "enable raw mode"}
               /\ term = CookedTerminal
    /\ shPc = "loop" =>
          /\ shState # "nil" /\ term.restored = <<>>
          /\ term.attrs = "raw" /\ term.ansi = <<HideCursor>>

\* a Run left by each of the three ways out of its loop
TerminalRestoredWitness ==
    /\ shPc = "returned" /\ shState # "nil" /\ term.attrs = "cooked"
    /\ shErr = "context canceled" /\ term.frames = MaxShellFrames
    /\ shEvents.taken > 0

\* C24: when executeSession has returned after Start gave it a handle, Wait
\* has been called on the handle, on every path, and the transcript writer
\* was closed only after Wait.
NoOrphanedSession ==
    /\ (xPc = "returned" /\ Did("Start")) => Did("Wait") /\ xChild = "reaped"
    /\ (Did("Start") /\ Did("transcript.Close")) =>
            Did("Wait") /\ FirstOf("Wait") < FirstOf("transcript.Close")

\* the byte the router has just handled, the mode it was handled in, and
\* the calls made for it
KeyHandled == irKeys' # irKeys
LastKey == irKeys'[Len(irKeys')].key
CallsForKey == SubSeq(irCalls', Len(irCalls) + 1, Len(irCalls'))
CallsOf(op) == SelectSeq(irCalls, LAMBDA c : c.op = op)
ForwardedKeys ==
    SelectSeq(irKeys, LAMBDA k : k.mode = ModePassthrough /\ k.key \notin Hotkeys)

\* C25: in Passthrough a byte does exactly one thing: p/P toggles pause, ?
\* toggles the help overlay, h/H enters HintCapture, s/S calls SoftStop with
\* the default reason, q/Q calls Abort, and any other byte is written to
\* the session as it is; the bytes written to the session are the other
\* bytes handled in Passthrough, once each and in input order, so no hotkey
\* byte is among them.
PassthroughRouting ==
    /\ [][(KeyHandled /\ irMode = ModePassthrough) =>
            /\ Len(CallsForKey) = 1
            /\ CASE LastKey \in {"p", "P"} ->
                        CallsForKey[1] = TogglePauseCall /\ irMode' = ModePassthrough
                 [] LastKey = "?" ->
                        CallsForKey[1] = ToggleHelpCall /\ irMode' = ModePassthrough
                 [] LastKey \in {"h", "H"} ->
                        CallsForKey[1].op = "SetHintInput" /\ irMode' = ModeHint
                 [] LastKey \in {"s", "S"} ->
                        /\ CallsForKey[1] = RouterCall("SoftStop", FALSE, softStopReasonDefault)
                        /\ irMode' = ModePassthrough
                 [] LastKey \in {"q", "Q"} ->
                        CallsForKey[1] = AbortHotkey /\ irMode' = ModePassthrough
                 [] OTHER ->
                        /\ CallsForKey[1] = RouterCall("WriteInput", FALSE, <<LastKey>>)
                        /\ irMode' = ModePassthrough]_vars
    /\ [](\E n \in {Len(CallsOf("WriteInput"))} :
            /\ n = Len(ForwardedKeys)
            /\ \A i \in 1..n : CallsOf("WriteInput")[i].text = <<ForwardedKeys[i].key>>)

\* the keys of a multi-byte character, Enter and Esc went to the session
\* between hotkeys
PassthroughRoutingWitness ==
    /\ Len(irKeys) = MaxKeys /\ irErr = ""
    /\ \A i \in DOMAIN irKeys : irKeys[i].mode = ModePassthrough
    /\ \E i, j \in DOMAIN irCalls :
        /\ i < j
        /\ irCalls[i] = WriteInputCall(HighByte) /\ irCalls[j] = WriteInputCall(ESC)
    /\ \E i \in DOMAIN irCalls : irCalls[i] = SoftStopHotkey
    /\ \E i \in DOMAIN irKeys : irKeys[i].key = "S"

\* what a byte handled in HintCapture does, apart from Enter and line feed
\* on a buffer with text: Esc and Enter on a blank buffer leave for
\* Passthrough with the display refreshed and the buffer emptied, backspace
\* drops the last rune, any other byte is appended; none of them reaches
\* the session or acts as a hotkey
HintKeyStep ==
    /\ \A i \in DOMAIN CallsForKey : CallsForKey[i].op \in {"SetHintInput", "SubmitHint"}
    /\ CASE LastKey = ESC \/ (LastKey \in {CR, LF} /\ TrimSpace(hintBuf) = <<>>) ->
                /\ irMode' = ModePassthrough /\ hintBuf' = <<>>
                /\ CallsForKey = <<SetHintInput(FALSE, <<>>)>>
         [] LastKey \in {CR, LF} /\ TrimSpace(hintBuf) # <<>> -> TRUE
         [] LastKey \in {DEL, BS} ->
                /\ irMode' = ModeHint
                /\ hintBuf' = IF hintBuf = <<>> THEN <<>>
                              ELSE SubSeq(hintBuf, 1, Len(hintBuf) - 1)
         [] OTHER ->
                irMode' = ModeHint /\ hintBuf' = Append(hintBuf, LastKey)

\* Enter or line feed on a buffer with text: submitted once, then
\* Passthrough with the display refreshed and the buffer emptied
HintSubmitted ==
    /\ irMode' = ModePassthrough /\ hintBuf' = <<>>
    /\ CallsForKey = <<SubmitHintCall(hintBuf), SetHintInput(FALSE, <<>>)>>

\* the entry into HintCapture refreshes the display on an empty buffer, and
\* in Passthrough the buffer is empty
HintEntryAndRest ==
    /\ [][(KeyHandled /\ irMode = ModePassthrough /\ irMode' = ModeHint) =>
            (CallsForKey = <<SetHintInput(TRUE, <<>>)>> /\ hintBuf' = <<>>)]_vars
    /\ [](irMode = ModePassthrough => hintBuf = <<>>)

\* C26: in HintCapture, Enter or line feed submits a buffer whose trimmed
\* text is non-empty exactly once and returns to Passthrough; Esc returns
\* without submitting; 0x7f or 0x08 removes the last rune; any other byte
\* is appended; no byte is forwarded or acts as a hotkey; every entry and
\* every exit refreshes the hint display and the buffer is empty in
\* Passthrough.
HintCaptureMachine ==
    /\ [][(KeyHandled /\ irMode = ModeHint) =>
            /\ HintKeyStep
            /\ (LastKey \in {CR, LF} /\ TrimSpace(hintBuf) # <<>>) => HintSubmitted]_vars
    /\ HintEntryAndRest

\* what holds of the code in its place: as above, except that when SubmitHint
\* answers an error the router returns that error having submitted once, and
\* stays in HintCapture with the buffer as it was and the display not
\* refreshed.
HintCaptureUnlessSubmitFails ==
    /\ [][(KeyHandled /\ irMode = ModeHint) =>
            /\ HintKeyStep
            /\ (LastKey \in {CR, LF} /\ TrimSpace(hintBuf) # <<>>) =>
                    IF irErr' = "" THEN HintSubmitted
                    ELSE /\ irMode' = ModeHint /\ hintBuf' = hintBuf
                         /\ CallsForKey = <<SubmitHintCall(hintBuf)>>]_vars
    /\ HintEntryAndRest

\* the last n elements of s
LastN(s, n) == Drop(s, Max(Len(s) - n, 0))

\* the view of the pane as the last pause left it, at today's scroll offset
ViewAtPause(h) == visible([paneSnap.pane EXCEPT !.scroll = pane.scroll], h)

\* lines the ring has pushed out since the last pause
DroppedSincePause ==
    Max(Len(paneFed) - pane.maxLines, 0) - Max(paneSnap.fed - pane.maxLines, 0)

\* new lines are accepted, paused or not: the ring holds the newest lines it
\* was handed; a resume leaves the pane at its bottom, showing the newest
NewLinesAccepted == pane.lines = LastN(paneFed, pane.maxLines)
ResumeSnapsToBottom ==
    paneOp = "resume" =>
        /\ ~pane.paused /\ pane.scroll = 0
        /\ \A h \in PaneHeights :
              visible(pane, h) = LastN(currentDataLive(pane), h)

\* C27 as stated: while the pane is paused visible(h) is the view of the
\* lines buffered at pause time whatever is appended, the appended lines are
\* accepted, and a resume shows the newest lines at scroll offset 0.
PauseFreezesView ==
    /\ pane.paused => \A h \in PaneHeights : visible(pane, h) = ViewAtPause(h)
    /\ NewLinesAccepted
    /\ ResumeSnapsToBottom

\* C27, amended: while the pane is paused the window keeps the length it had
\* at pause time, and visible(h) is the view of pause time as long as the ring
\* has pushed no line out since; once it has, the window shows the lines that
\* moved into its places, the pause-time lines shifted by the lines pushed
\* out. The appended lines are accepted, and a resume shows the newest lines
\* at scroll offset 0.
PauseFreezesWindow ==
    /\ pane.paused =>
          /\ Len(currentData(pane)) = Len(currentData(paneSnap.pane))
          /\ DroppedSincePause = 0 =>
                \A h \in PaneHeights : visible(pane, h) = ViewAtPause(h)
          /\ currentData(pane) =
                Take(LastN(paneFed, pane.maxLines), paneSnap.pane.pausedLen)
                \o (IF paneSnap.pane.pausedPartial # <<>>
                    THEN <<paneSnap.pane.pausedPartial>> ELSE <<>>)
    /\ NewLinesAccepted
    /\ ResumeSnapsToBottom

\* a paused pane that was handed more lines than its ring holds since the
\* pause, and shows other lines than at pause time
PausedRingOverflowed ==
    /\ pane.paused /\ paneOp = "append"
    /\ Len(paneFed) - paneSnap.fed > pane.maxLines
    /\ \E h \in PaneHeights : visible(pane, h) # ViewAtPause(h)

\* the lines of the stream that the parser has been handed whole: every line
\* ended by a line break, and the unfinished last line once Finalize ran
FedSoFar == Take(pText, Len(pText) - Len(pRest))
LinesHandled ==
    LET ls == Split(foldNewlines(FedSoFar), LF) IN
    IF pPc = "finalized" THEN ls ELSE Take(ls, Len(ls) - 1)

ValidReport(res, expectedID) ==
    /\ res.SessionID # <<>>
    /\ expectedID # <<>> => res.SessionID = expectedID
    /\ res.Status \in {StatusSuccess, StatusFailure}
    /\ res.CommitMsg # <<>>
    /\ \A i \in 1..Len(res.CommitMsg) : res.CommitMsg[i] \notin {LF, CR}
    /\ res.Details # <<>>
    /\ res.Status = StatusFailure => res.Escalation # <<>>

\* C28: a result returned with done = TRUE has a session id, the expected one
\* if the parser was bound to one, a status of success or needs_help, a
\* commit_msg of one line, details, and an escalation when the status is
\* needs_help; its closing fence has been read; and whatever is returned with
\* done = FALSE is the empty result.
AcceptedReportsAreValid ==
    /\ pOutcome.done =>
          /\ ValidReport(pOutcome.res, parser.expectedID)
          /\ pOutcome.err = "ok"
          /\ \E i \in 1..Len(LinesHandled) :
                TrimSpace(LinesHandled[i]) = FenceClose
    /\ ~pOutcome.done => pOutcome.res = EmptyResult

\* a needs_help report accepted by a parser bound to the session id, from a
\* stream whose first closing fence came before the status line
AcceptedReportsAreValidWitness ==
    /\ pOutcome.done /\ parser.expectedID = SampleID
    /\ pOutcome.res.Status = StatusFailure
    /\ pOutcome.res.Escalation # <<>>
    /\ pText = DefectiveText(<<CR, LF>>, TRUE, StatusFailure, "closedLate")

\* the fields of the report as the Agent emitted it, the entry a session
\* appended to the ledger
EmittedReport == parseFencedReport(SessionIDOf(0), wStream).res
Recorded(run) == Len(run.after.lines) = Len(run.before.lines) + 1
RecordedEntry(run) ==
    LET after == ledgerEntriesForEpic(run.after.lines, <<>>) IN after[Len(after)]
SecretEmitted ==
    \/ ContainsAnySecret(EmittedReport.CommitMsg, wSecrets)
    \/ ContainsAnySecret(EmittedReport.Details, wSecrets)
    \/ ContainsAnySecret(EmittedReport.Escalation, wSecrets)

\* C29: the entry a session appends has redacted = TRUE exactly when a
\* configured secret occurs in the commit_msg, details or escalation the
\* Agent emitted, and then stores these fields with the placeholder in place
\* of the secret.
RedactedFlagTellsRedaction ==
    \A i \in DOMAIN runs :
        (oScope = "pipeline" /\ Recorded(runs[i])) =>
            LET entry == RecordedEntry(runs[i]) IN
            /\ entry.Redacted = SecretEmitted
            /\ SecretEmitted =>
                /\ entry.CommitSummary =
                      redactText(EmittedReport.CommitMsg, wSecrets).text
                /\ entry.CommitDetails =
                      redactText(EmittedReport.Details, wSecrets).text
                /\ entry.Escalation =
                      redactText(TrimSpace(EmittedReport.Escalation), wSecrets).text

\* the text of the first n LogChunk events, in order
RECURSIVE ChunksUpTo(_)
ChunksUpTo(n) == IF n = 0 THEN <<>> ELSE ChunksUpTo(n - 1) \o wEvents[n].Chunk

\* C30: a LogChunk event carries the redacted text of its chunk, which holds
\* no configured secret, and is emitted when the chunk has been redacted,
\* appended to the cumulative buffer and written to the tee: the events up to
\* any one of them spell what the buffer and the tee held when it was emitted.
LogChunksCarryRedactedText ==
    \A i \in DOMAIN wEvents :
        /\ ~ContainsAnySecret(wEvents[i].Chunk, wSecrets)
        /\ ChunksUpTo(i) = Take(wBuilder, wEvents[i].buffered)
        /\ ChunksUpTo(i) = Take(wTee, wEvents[i].teed)

\* C31: the Exit event is the last event sent, and no SoftStop or Abort call
\* emits its Stopping on the channel once the wait watcher has closed it,
\* whatever the interleaving.
ExitStrictlyLast ==
    /\ [](\A i \in 1..Len(ev.sent) : ev.sent[i].kind = "Exit" => i = Len(ev.sent))
    /\ [][ev.closed =>
            \A c \in Callers :
                /\ ssPc[c] = "emit" => ssPc'[c] = "emit"
                /\ abPc[c] = "emit" => abPc'[c] = "emit"]_vars

\* C32: of the soft-stop marker block, a hint block and a raw payload, no two
\* are being written to the PTY at the same time.
InputWritesExclusive ==
    Cardinality({c \in InputCallers : inPc[c] = "writing"}) <= 1

\* C33: once the stop function of the relay has been called, the relay makes
\* no further SoftStop or Abort call on the session handle.
RelayStopsWithRun == [][relayDone => ctrlCalls' = ctrlCalls]_vars

\* the records of the epic in the ledger the summarizer reads, in file order
EpicRecords == ledgerEntriesForEpic(ledgerLines(smStore), EpicA)
IsSuccessRecord(e) == ToLower(TrimSpace(e.Status)) = StatusSuccess
HasText(e) == TrimSpace(e.CommitSummary) # <<>> \/ TrimSpace(e.CommitDetails) # <<>>
NoNeedsHelp ==
    \A i \in 1..Len(EpicRecords) : ToLower(TrimSpace(EpicRecords[i].Status)) # StatusFailure
\* list in ascending order of completed_at, equal times in the order of list
AscendingStable(list) ==
    LET rank(i) == Cardinality({k \in 1..Len(list) :
                        \/ list[k].CompletedAt < list[i].CompletedAt
                        \/ list[k].CompletedAt = list[i].CompletedAt /\ k <= i}) IN
    [r \in 1..Len(list) |-> list[CHOOSE i \in 1..Len(list) : rank(i) = r]]
RECURSIVE ChunksJoined(_)
ChunksJoined(chunks) ==
    IF chunks = <<>> THEN <<>> ELSE Head(chunks).Entries \o ChunksJoined(Tail(chunks))
\* the summarizer was given the selection of the records that pass keep
SummaryGiven(keep(_)) ==
    LET chosen == SelectSeq(EpicRecords, keep)
        sorted == AscendingStable([i \in 1..Len(chosen) |-> summaryEntryOf(chosen[i])])
        size == IF smChunk <= 0 THEN 5 ELSE smChunk IN
    /\ (smPc \in {"loaded", "chunked", "returned"} /\ NoNeedsHelp) =>
        /\ smLoaded.err = ""
        /\ smLoaded.total = Len(sorted)
        /\ smLoaded.entries = LastN(sorted, smMax)
    /\ smPc = "chunked" =>
        /\ ChunksJoined(smChunks) = smLoaded.entries
        /\ \A i \in 1..Len(smChunks) :
            /\ smChunks[i].Index = i
            /\ Len(smChunks[i].Entries) \in 1..size
            /\ i < Len(smChunks) => Len(smChunks[i].Entries) = size

\* C34 as stated: without needs_help records of the epic the summarizer is
\* given the epic's success records, sorted ascending by completed_at with
\* ties in file order, cut to the last max_commits, total counting them all,
\* in chunks of chunk_size that concatenate to the list.
SummarySelectionOfSuccessRecords == SummaryGiven(IsSuccessRecord)

\* C34 amended: the same of the epic's success records that carry a commit
\* summary or commit details.
SummarySelection == SummaryGiven(LAMBDA e : IsSuccessRecord(e) /\ HasText(e))

\* four success records out of time order with a tie, cut to three, given in
\* a chunk of two and a chunk of one
SummarySelectionWitness ==
    /\ smPc = "chunked" /\ NoNeedsHelp
    /\ smLoaded.total = 4 /\ Len(smLoaded.entries) = 3 /\ smChunk = 2
    /\ Len(smChunks) = 2 /\ Len(smChunks[2].Entries) = 1
    /\ \E i, j \in 1..Len(EpicRecords) :
        i < j /\ EpicRecords[j].CompletedAt < EpicRecords[i].CompletedAt
    /\ smLoaded.entries[2].CompletedAt = smLoaded.entries[3].CompletedAt
    /\ smLoaded.entries[2].BeadID # smLoaded.entries[3].BeadID

\* C35: the pane holds at most maxLines complete lines, the most recently
\* completed ones; the paused length is at most the number of buffered lines;
\* the scroll offset lies in 0..max(0, L - 1) for L the length of the visible
\* buffer; a scroll by N moves the offset by N unless that bound clamps it.
PaneBounds ==
    /\ [](/\ Len(pane.lines) <= pane.maxLines
          /\ pane.lines = LastN(paneFed, Len(pane.lines))
          /\ pane.pausedLen <= Len(pane.lines)
          /\ pane.scroll >= 0
          /\ pane.scroll <= Max(0, Len(currentData(pane)) - 1))
    /\ [][paneOp' = "scroll" =>
            \E delta \in ScrollDeltas :
                pane'.scroll = Min(Max(pane.scroll + delta, 0),
                                   Max(0, Len(currentData(pane)) - 1))]_vars

\* C36: a text appended to an unpaused pane in chunks, however it is split,
\* leaves the buffered lines and the pending partial line that one append of
\* the whole text leaves.
PaneSplitIndependence ==
    panePos = Len(paneText) =>
        LET whole == append(newLogPane(MaxPaneLines), paneText) IN
        /\ pane.lines = whole.lines
        /\ pane.partial = whole.partial

\* C37: a SoftStop or Abort call that runs beside or after finish never
\* dereferences the cleared handle: its write to the PTY and its signal to
\* the process do not panic.
ControlsSafeAgainstExit ==
    [][\A c \in Callers :
        /\ (ssPc[c] = "write" /\ ssPc'[c] # "write") => ~ev'.panicked
        /\ (abPc[c] = "signal" /\ abPc'[c] # "signal") => ~ev'.panicked]_vars

\* C38: once the session has exited, every call of Stop returns, the shell
\* loop ended and the terminal restored by then, whether or not another byte
\* arrives on the operator's input.
DisplayStopTerminates ==
    /\ \A c \in Callers : <>(dStop[c] = "returned")
    /\ [](\A c \in Callers : dStop[c] = "returned" => dShell = "returned")

\* C39: the soft_stop events of the operator log are as many as the soft-stop
\* markers written to the PTY, at most one in a session.
SoftStopEventsMatchMarkers ==
    /\ opSession.markers <= 1
    /\ Len(SelectSeq(opLog, LAMBDA e : e.Kind = operatorEventSoftStop))
          = opSession.markers

\* C40: a Sentinel returns done = true only with the validated report and a
\* nil error; after it returned a report every later call returns that
\* report, and after it returned a parse error every later call returns that
\* error with done = false and no report.
SentinelLatchesFirstOutcome ==
    /\ [](snRet.done => snRet.err = "ok" /\ ValidReport(snRet.res, SampleID))
    /\ [][snLatched.set =>
            snRet' = [res |-> snLatched.res, done |-> snLatched.done,
                      err |-> snLatched.err]]_vars

====
